---- MODULE Spec2Model ----
(***************************************************************************)
(* Voronoi diagram programs of the repository (phase 1 and the five        *)
(* phase-2 variants): the point-file readers, the Euclidean distance, the  *)
(* nearest-site classifier, the label-grid generators, the normaliser of   *)
(* the points, the bisector-intersection regions of the Grok variant, the  *)
(* bisector edges of the ChatGPT variant and the interactive shells.       *)
(*                                                                         *)
(* Text is modelled character by character: a line is a sequence of        *)
(* one-character strings, a file is a sequence of lines.  A number read by *)
(* float() is an exact decimal  m * 10^(-e)  (record [cls, m, e]) or one   *)
(* of the non-finite values inf / nan that float() also accepts.           *)
(***************************************************************************)
EXTENDS Integers, Sequences, FiniteSets, TLC

VARIABLES
    reader,        \* which reader function is called
    source,        \* state of the path given to it: missing / unreadable / present
    contents,      \* the lines of the file
    written,       \* the points a test serialised into the file (<<>>: free text)
    line_number,   \* number of lines consumed by the for loop so far
    points,        \* the list `points` built by the loop
    outcome,       \* what the call produced: a return value or a raised exception
    pc,            \* position of the call: "call", "loop", "done"
    point1,        \* first argument of calculer_distance
    point2,        \* second argument of calculer_distance
    dist,          \* the distances measured between them
    classifier,    \* which nearest-site function is called
    pixel,         \* its query coordinate (pixel_x, pixel_y)
    liste_points,  \* its list of sites
    index_plus_proche,  \* the index it returned
    cpc,           \* position of that call: "call", "returned"
    generator,     \* which grid generator is called
    grid_points,   \* its list of sites
    largeur,       \* generer_grille_voronoi: number of columns
    hauteur,       \* generer_grille_voronoi: number of rows
    resolution,    \* generate_voronoi_grid: samples per axis
    padding,       \* generate_voronoi_grid: padding, a fraction <<num, den>>
    axis_x,        \* generate_voronoi_grid: the samples x, numerators over GridScale
    axis_y,        \* generate_voronoi_grid: the samples y, numerators over GridScale
    min_dists,     \* generate_voronoi_grid: running minimum of squared distances
    Z,             \* generate_voronoi_grid: the label grid being filled
    site_index,    \* generate_voronoi_grid: number of sites the loop has processed
    grille,        \* the grid returned by generer_grille_voronoi / generer_grille
    gpc,           \* position of that call: "call", "loop", "done"
    norm_points,   \* normaliser_points: its argument `points`
    norm_largeur,  \* normaliser_points: its argument `largeur`
    norm_hauteur,  \* normaliser_points: its argument `hauteur`
    marge,         \* normaliser_points: its argument `marge`
    points_normalises,  \* what the call produced: the list returned, or an exception
    npc,           \* position of that call: "call", "done"
    region_points, \* plot_voronoi: its argument `points`
    site,          \* plot_voronoi: the index i of the point being processed
    neighbors,     \* compute_region: the points other than `point`
    pair_i,        \* compute_region: loop index i
    pair_j,        \* compute_region: loop index j
    vertices,      \* compute_region: the intersections collected so far
    region,        \* what compute_region returned
    filled,        \* plot_voronoi: the indices whose region was filled and outlined
    rpc,           \* position: "call", "pairs", "returned", "done"
    vor,           \* what generate_voronoi returned, once it was called
    shell,         \* which application is running
    held,          \* the point set the application holds (0: none, or an empty list)
    built,         \* the point set its stored grid / figure was built from (0: none)
    gen_enabled,   \* Grok: the state of the generate button
    exp_enabled,   \* Grok, Fusion, Gemini: the state of the export buttons
    suspended,     \* the handler waiting in update(), "none" if there is none
    files,         \* the files written so far: what each was built from, and `held` then
    edge_points,   \* generate_voronoi_edges: its argument points
    edge_bounds,   \* its argument bounds: <<xmin, xmax, ymin, ymax>>
    edge_i,        \* the loop indices i and j (0-based, as in the source)
    edge_j,
    bisector,      \* the coefficients computed for the last pair
    edges,         \* the list of edges built so far
    epc            \* position: "call", "pairs", "done"

readerVars == <<reader, source, contents, written, line_number, points, outcome, pc>>

distVars == <<point1, point2, dist>>

nearVars == <<classifier, pixel, liste_points, index_plus_proche, cpc>>

gridVars == <<generator, grid_points, largeur, hauteur, resolution, padding,
              axis_x, axis_y, min_dists, Z, site_index, grille, gpc>>

normVars == <<norm_points, norm_largeur, norm_hauteur, marge, points_normalises, npc>>

regionVars == <<region_points, site, neighbors, pair_i, pair_j, vertices, region,
                filled, rpc, vor>>

shellVars == <<shell, held, built, gen_enabled, exp_enabled, suspended, files>>

edgeVars == <<edge_points, edge_bounds, edge_i, edge_j, bisector, edges, epc>>

vars == <<readerVars, distVars, nearVars, gridVars, normVars, regionVars, shellVars, edgeVars>>

\* the variables each part of the model leaves alone
notReader == <<distVars, nearVars, gridVars, normVars, regionVars, shellVars, edgeVars>>

notDist == <<readerVars, nearVars, gridVars, normVars, regionVars, shellVars, edgeVars>>

notNear == <<readerVars, distVars, gridVars, normVars, regionVars, shellVars, edgeVars>>

notGrid == <<readerVars, distVars, nearVars, normVars, regionVars, shellVars, edgeVars>>

notNorm == <<readerVars, distVars, nearVars, gridVars, regionVars, shellVars, edgeVars>>

notRegion == <<readerVars, distVars, nearVars, gridVars, normVars, shellVars, edgeVars, vor>>

notShell == <<readerVars, distVars, nearVars, gridVars, normVars, regionVars, edgeVars>>

notEdges == <<readerVars, distVars, nearVars, gridVars, normVars, regionVars, shellVars>>

-----------------------------------------------------------------------------
(* Bounds of the model *)

MaxLines == 3
MaxWritten == 2
MaxSites == 3
MaxResolution == 3
MaxRegionSites == 4
MaxPointSets == 2

(* Program constant: the minimum number of points every reader requires. *)
MinPoints == 2

-----------------------------------------------------------------------------
(* Characters and strings *)

Digits == <<"0", "1", "2", "3", "4", "5", "6", "7", "8", "9">>

IsDigit(c) == \E i \in 1..10 : Digits[i] = c

DigitValue(c) == (CHOOSE i \in 1..10 : Digits[i] = c) - 1

\* the whitespace str.strip() and float() remove
IsSpace(c) == c \in {" ", "\t"}

RECURSIVE LStrip(_)
LStrip(s) == IF s # <<>> /\ IsSpace(Head(s)) THEN LStrip(Tail(s)) ELSE s

RECURSIVE RStrip(_)
RStrip(s) ==
    IF s # <<>> /\ IsSpace(s[Len(s)]) THEN RStrip(SubSeq(s, 1, Len(s) - 1)) ELSE s

\* str.strip()
Strip(s) == RStrip(LStrip(s))

\* index of the first occurrence of c in s, 0 when absent
FirstIndex(s, c) ==
    IF \E i \in 1..Len(s) : s[i] = c
    THEN CHOOSE i \in 1..Len(s) : s[i] = c /\ \A j \in 1..(i - 1) : s[j] # c
    ELSE 0

\* str.split(sep): always at least one field; n separators give n + 1 fields
RECURSIVE Split(_, _)
Split(s, sep) ==
    LET i == FirstIndex(s, sep)
    IN  IF i = 0 THEN <<s>>
        ELSE <<SubSeq(s, 1, i - 1)>> \o Split(SubSeq(s, i + 1, Len(s)), sep)

-----------------------------------------------------------------------------
(* float(): the builtin conversion every reader applies to a field *)

NotANumber == [ok |-> FALSE, cls |-> "none", m |-> 0, e |-> 0]

\* canonical form of m * 10^(-e): no trailing zero in the fraction
RECURSIVE Normalise(_, _)
Normalise(m, e) ==
    IF e > 0 /\ m % 10 = 0 THEN Normalise(m \div 10, e - 1)
    ELSE [ok |-> TRUE, cls |-> "finite", m |-> m, e |-> e]

RECURSIVE DigitsToNat(_)
DigitsToNat(s) ==
    IF s = <<>> THEN 0
    ELSE 10 * DigitsToNat(SubSeq(s, 1, Len(s) - 1)) + DigitValue(s[Len(s)])

AllDigits(s) == \A i \in 1..Len(s) : IsDigit(s[i])

\* an unsigned literal: digits, digits.digits, digits. , .digits, inf, nan
ParseUnsigned(s, sign) ==
    LET dot  == FirstIndex(s, ".")
        ip   == IF dot = 0 THEN s ELSE SubSeq(s, 1, dot - 1)
        fp   == IF dot = 0 THEN <<>> ELSE SubSeq(s, dot + 1, Len(s))
    IN  IF s \in {<<"i", "n", "f">>, <<"i", "n", "f", "i", "n", "i", "t", "y">>}
        THEN [ok |-> TRUE, cls |-> "inf", m |-> sign, e |-> 0]
        ELSE IF s = <<"n", "a", "n">>
        THEN [ok |-> TRUE, cls |-> "nan", m |-> 0, e |-> 0]
        ELSE IF AllDigits(ip) /\ AllDigits(fp) /\ Len(ip) + Len(fp) > 0
        THEN Normalise(sign * DigitsToNat(ip \o fp), Len(fp))
        ELSE NotANumber

\* float(field): surrounding whitespace is ignored, one optional sign
ParseFloat(field) ==
    LET t == Strip(field)
    IN  IF t = <<>> THEN NotANumber
        ELSE IF Head(t) = "-" THEN ParseUnsigned(Tail(t), -1)
        ELSE IF Head(t) = "+" THEN ParseUnsigned(Tail(t), 1)
        ELSE ParseUnsigned(t, 1)

-----------------------------------------------------------------------------
(* Writing a point file, as the tests' fixtures do: one "x,y" line a point *)

RECURSIVE NatToDigits(_)
NatToDigits(n) ==
    IF n < 10 THEN <<Digits[n + 1]>>
    ELSE NatToDigits(n \div 10) \o <<Digits[(n % 10) + 1]>>

RECURSIVE Pow10(_)
Pow10(e) == IF e = 0 THEN 1 ELSE 10 * Pow10(e - 1)

RECURSIVE ZeroPad(_, _)
ZeroPad(s, width) == IF Len(s) >= width THEN s ELSE ZeroPad(<<"0">> \o s, width)

\* the decimal literal of a finite value: "2", "5.3", "-1.5", "0.05"
FormatCoord(v) ==
    LET a    == IF v.m < 0 THEN -v.m ELSE v.m
        sgn  == IF v.m < 0 THEN <<"-">> ELSE <<>>
        ip   == NatToDigits(a \div Pow10(v.e))
        fp   == ZeroPad(NatToDigits(a % Pow10(v.e)), v.e)
    IN  IF v.e = 0 THEN sgn \o ip ELSE sgn \o ip \o <<".">> \o fp

FormatPoint(p) == FormatCoord(p[1]) \o <<",">> \o FormatCoord(p[2])

Serialize(pts) == [i \in 1..Len(pts) |-> FormatPoint(pts[i])]

-----------------------------------------------------------------------------
(* Outcomes of a reader call.  A raised exception is its class and what    *)
(* its message is made of: the literal texts (outermost first) and the     *)
(* values interpolated into them.                                          *)
(*   line   the line number interpolated, 0 when the message has none      *)
(*   shown  the pieces of input text interpolated, <<>> when none          *)
(*   found  the number of points interpolated, -1 when none                *)

Exc(kind, text, line, shown, found) ==
    [kind |-> kind, text |-> <<text>>, line |-> line, shown |-> shown,
     found |-> found, points |-> <<>>]

Returned(pts) ==
    [kind |-> "ok", text |-> <<>>, line |-> 0, shown |-> <<>>, found |-> -1,
     points |-> pts]

NoOutcome ==
    [kind |-> "none", text |-> <<>>, line |-> 0, shown |-> <<>>, found |-> -1,
     points |-> <<>>]

Phase2Readers ==
    {"lire_coordonnees", "read_points_file", "parse_points_file", "read_points",
     "load_points"}

Phase1Reader == "phase1.lire_coordonnees"

Readers == Phase2Readers \cup {Phase1Reader}

\* load_points: `except Exception as e: raise ValueError(f"Erreur ... {str(e)}")`
WrapLoadError(e) ==
    [e EXCEPT !.kind = "ValueError",
              !.text = <<"Erreur lors du chargement : {str(e)}">> \o @]

\* what leaves the reader when exception e is raised inside it
Raise(r, e) ==
    IF r = "load_points" /\ e.kind # "FileNotFoundError" THEN WrapLoadError(e) ELSE e

\* the exception for a path that does not exist (the texts of the messages
\* are written here without their accents)
NotFoundError(r) ==
    CASE r = "lire_coordonnees" ->
           Exc("FileNotFoundError", "[Errno 2] No such file or directory: '{nom_fichier}'",
               0, <<>>, -1)
      [] r = "read_points_file" ->
           Exc("FileNotFoundError", "Le fichier specifie est introuvable : {filepath}",
               0, <<>>, -1)
      [] r = "parse_points_file" ->
           Exc("FileNotFoundError", "Le fichier '{filepath}' est introuvable.", 0, <<>>, -1)
      [] r = "read_points" ->
           Exc("FileNotFoundError", "Le fichier specifie est introuvable.", 0, <<>>, -1)
      [] r = "load_points" ->
           Exc("FileNotFoundError", "Le fichier specifie est introuvable.", 0, <<>>, -1)

\* open() on a file that exists and cannot be read
PermissionError ==
    Exc("PermissionError", "[Errno 13] Permission denied: '{file}'", 0, <<>>, -1)

\* a non-blank line that does not split into two fields
MalformedError(r, n, ligne) ==
    CASE r = "lire_coordonnees" ->
           Exc("ValueError",
               "Ligne {numero_ligne} mal formatee : '{ligne}'. Format attendu : x,y",
               n, <<ligne>>, -1)
      [] r = "read_points_file" ->
           Exc("ValueError", "Format incorrect a la ligne {line_idx}. Attendu : x,y",
               n, <<>>, -1)
      [] r = "parse_points_file" ->
           Exc("ValueError", "Format incorrect ligne {line_idx + 1}. Attendu : x,y",
               n, <<>>, -1)
      [] r = "read_points" ->
           Exc("ValueError", "Format incorrect a la ligne {line_number}.", n, <<>>, -1)
      [] r = "load_points" ->
           Exc("ValueError",
               "Ligne {line_num}: Doit contenir exactement deux valeurs separees par une virgule.",
               n, <<>>, -1)

\* a field float() rejects
NonNumericError(r, n, valeurs) ==
    CASE r = "lire_coordonnees" ->
           Exc("ValueError",
               "Ligne {numero_ligne} : impossible de convertir '{valeurs[0]}' ou '{valeurs[1]}' en nombre.",
               n, valeurs, -1)
      [] r = "read_points_file" ->
           Exc("ValueError", "Valeurs non numeriques a la ligne {line_idx}.", n, <<>>, -1)
      [] r = "parse_points_file" ->
           Exc("ValueError", "Coordonnees non numeriques ligne {line_idx + 1}.", n, <<>>, -1)
      [] r = "read_points" ->
           Exc("ValueError", "Valeur non numerique a la ligne {line_number}.", n, <<>>, -1)
      [] r = "load_points" ->
           Exc("ValueError", "Ligne {line_num}: Valeurs non numeriques.", n, <<>>, -1)
      [] r = Phase1Reader ->
           Exc("ValueError", "could not convert string to float: {!r}", 0,
               <<IF ParseFloat(valeurs[1]).ok THEN valeurs[2] ELSE valeurs[1]>>, -1)

\* fewer than MinPoints points after the last line
InsufficientError(r, k) ==
    CASE r = "lire_coordonnees" ->
           Exc("ValueError",
               "Le fichier doit contenir au moins 2 points. Seulement {len(points)} point(s) trouve(s).",
               0, <<>>, k)
      [] r = "read_points_file" ->
           Exc("ValueError",
               "Le fichier doit contenir au moins 2 points pour generer un diagramme.",
               0, <<>>, -1)
      [] r = "parse_points_file" ->
           Exc("ValueError",
               "Le fichier doit contenir au moins 2 points pour generer un diagramme.",
               0, <<>>, -1)
      [] r = "read_points" ->
           Exc("ValueError", "Au moins deux points sont requis.", 0, <<>>, -1)
      [] r = "load_points" ->
           Exc("ValueError",
               "Au moins 2 points sont requis pour generer un diagramme de Voronoi.",
               0, <<>>, -1)

-----------------------------------------------------------------------------
(* The body of the readers' for loop *)

Continue(pts) == [raised |-> FALSE, exc |-> NoOutcome, points |-> pts]

Raised(e, pts) == [raised |-> TRUE, exc |-> e, points |-> pts]

\* `points.append((x, y))` with a point gone wrong: the coordinates exchanged
MakePointSwapped(x, y) == <<y, x>>

\* the tuple `(x, y)` appended to `points`
MakePoint(x, y) == <<x, y>>

\* the loop with the strip() of the line forgotten
StripLineOmitted(raw) == raw

\* `line = line.strip()`
StripLine(raw) == Strip(raw)

\* read_points_file and load_points strip each field before float()
FieldText(r, field) ==
    IF r \in {"read_points_file", "load_points"} THEN Strip(field) ELSE field

\* one iteration of the phase-2 loop on line number n
Phase2Line(r, n, raw, pts) ==
    LET ligne   == StripLine(raw)
        valeurs == Split(ligne, ",")
    IN  IF ligne = <<>> THEN Continue(pts)
        ELSE IF Len(valeurs) # 2 THEN Raised(Raise(r, MalformedError(r, n, ligne)), pts)
        ELSE LET x == ParseFloat(FieldText(r, valeurs[1]))
                 y == ParseFloat(FieldText(r, valeurs[2]))
             IN  IF ~x.ok \/ ~y.ok
                 THEN Raised(Raise(r, NonNumericError(r, n, valeurs)), pts)
                 ELSE Continue(Append(pts, MakePoint(x, y)))

\* one iteration of the phase-1 loop: a line without two fields is passed over
Phase1Line(n, raw, pts) ==
    LET valeurs == Split(Strip(raw), ",")
    IN  IF Len(valeurs) = 2
        THEN LET x == ParseFloat(valeurs[1])
                 y == ParseFloat(valeurs[2])
             IN  IF ~x.ok \/ ~y.ok
                 THEN Raised(NonNumericError(Phase1Reader, n, valeurs), pts)
                 ELSE Continue(Append(pts, MakePoint(x, y)))
        ELSE Continue(pts)

LineStep(r, n, raw, pts) ==
    IF r = Phase1Reader THEN Phase1Line(n, raw, pts) ELSE Phase2Line(r, n, raw, pts)

\* after the loop: the count check of the phase-2 readers, then the return
EndOfFile(r, pts) ==
    IF r # Phase1Reader /\ Len(pts) < MinPoints
    THEN Raise(r, InsufficientError(r, Len(pts)))
    ELSE Returned(pts)

\* entering the reader: the existence check and open()
OpenSource(r, src) ==
    CASE src = "present" -> NoOutcome
      [] src = "missing" ->
           IF r = Phase1Reader THEN Returned(<<>>) ELSE NotFoundError(r)
      [] src = "unreadable" -> Raise(r, PermissionError)

-----------------------------------------------------------------------------
(* Inputs of the reader specification *)

LineSamples ==
    { <<>>,                                              \* empty line
      <<" ", "\t">>,                                     \* whitespace only
      <<"2", ",", "4">>,
      <<"5", ".", "3", ",", "4", ".", "5">>,
      <<" ", "1", "8", " ", ",", " ", "2", "9">>,        \* spaces around fields
      <<"5", ".", "3">>,                                 \* one field
      <<"1", ",", "2", ",", "3">>,                       \* three fields
      <<"a", "b", "c", ",", "d", "e", "f">>,
      <<"2", ",">>,                                      \* empty second field
      <<"i", "n", "f", ",", "1">>,
      <<"4", ",", "n", "a", "n">> }

TextFiles == UNION {[1..n -> LineSamples] : n \in 0..MaxLines}

Dec(m, e) == [ok |-> TRUE, cls |-> "finite", m |-> m, e |-> e]

\* 2, 5.3, -0.05, 10
CoordSamples == {Dec(2, 0), Dec(53, 1), Dec(-5, 2), Dec(10, 0)}

PointSamples == CoordSamples \X CoordSamples

WrittenPointSets == UNION {[1..n -> PointSamples] : n \in MinPoints..MaxWritten}

SourceStates == {"missing", "unreadable", "present"}

-----------------------------------------------------------------------------
(* Distances.  Coordinates are integers of a common decimal scale.  The    *)
(* value of math.sqrt(n) is kept exactly, as the integer root r of n and   *)
(* the remainder n - r*r: two such values are ordered as the reals they    *)
(* stand for, and the value is the integer r exactly when rem = 0.         *)

\* math.sqrt(n) for n >= 0
Sqrt(n) ==
    LET r == CHOOSE k \in 0..n : k * k <= n /\ n < (k + 1) * (k + 1)
    IN  [inf |-> FALSE, root |-> r, rem |-> n - r * r]

\* float('inf')
Inf == [inf |-> TRUE, root |-> 0, rem |-> 0]

\* `<=` in the place of `<`
DistLessOrEqual(a, b) ==
    \/ b.inf
    \/ ~a.inf /\ (a.root < b.root \/ (a.root = b.root /\ a.rem <= b.rem))

\* `distance < distance_min` on two distance values
DistLess(a, b) ==
    /\ ~a.inf
    /\ \/ b.inf
       \/ a.root < b.root
       \/ a.root = b.root /\ a.rem < b.rem

\* calculer_distance with y1 unpacked from the wrong component
CalculerDistanceWrongY(p1, p2) ==
    Sqrt((p2[1] - p1[1]) * (p2[1] - p1[1]) + (p2[2] - p1[1]) * (p2[2] - p1[1]))

\* phase 2: math.sqrt((x2 - x1) ** 2 + (y2 - y1) ** 2)
calculer_distance(p1, p2) ==
    LET x1 == p1[1]
        y1 == p1[2]
        x2 == p2[1]
        y2 == p2[2]
    IN  Sqrt((x2 - x1) * (x2 - x1) + (y2 - y1) * (y2 - y1))

\* phase 1: the same formula
Phase1CalculerDistance(p1, p2) ==
    LET x1 == p1[1]
        y1 == p1[2]
        x2 == p2[1]
        y2 == p2[2]
        distance == Sqrt((x2 - x1) * (x2 - x1) + (y2 - y1) * (y2 - y1))
    IN  distance

\* the distance function each classifier calls
DistanceOf(c, p, q) ==
    IF c = "trouver_point_plus_proche" THEN Phase1CalculerDistance(p, q)
    ELSE calculer_distance(p, q)

\* the for loop of the classifiers from site number i on (sites numbered
\* from 1 here, indices from 0 in the code)
RECURSIVE ScanSites(_, _, _, _, _, _)
ScanSites(c, px, py, lp, i, best) ==
    IF i > Len(lp) THEN best.index
    ELSE LET distance == DistanceOf(c, <<px, py>>, lp[i])
         IN  IF DistLess(distance, best.distance_min)
             THEN ScanSites(c, px, py, lp, i + 1,
                            [distance_min |-> distance, index |-> i - 1])
             ELSE ScanSites(c, px, py, lp, i + 1, best)

\* phase 2: index_plus_proche starts at 0
trouver_site_le_plus_proche(pixel_x, pixel_y, lp) ==
    ScanSites("trouver_site_le_plus_proche", pixel_x, pixel_y, lp, 1,
              [distance_min |-> Inf, index |-> 0])

\* phase 1: index_du_plus_proche starts at -1
trouver_point_plus_proche(pixel_x, pixel_y, lp) ==
    ScanSites("trouver_point_plus_proche", pixel_x, pixel_y, lp, 1,
              [distance_min |-> Inf, index |-> -1])

Classifiers == {"trouver_site_le_plus_proche", "trouver_point_plus_proche"}

Classify(c, px, py, lp) ==
    IF c = "trouver_point_plus_proche" THEN trouver_point_plus_proche(px, py, lp)
    ELSE trouver_site_le_plus_proche(px, py, lp)

\* inputs
Coords == 0..2

DistCoords == -2..4

GridPoints == Coords \X Coords

SiteLists == UNION {[1..n -> GridPoints] : n \in 0..MaxSites}

NoDist ==
    [ab |-> Inf, ba |-> Inf, aa |-> Inf, ab1 |-> Inf, ba1 |-> Inf, aa1 |-> Inf,
     measured |-> FALSE]

-----------------------------------------------------------------------------
(* The label-grid generators *)
(*                                                                         *)
(* A grid is a sequence of rows, a row a sequence of labels: grid[r + 1]   *)
(* [c + 1] is the cell the code writes grid[r, c].  Labels are the site    *)
(* indices of the code, counted from 0.                                    *)

Min(S) == CHOOSE m \in S : \A k \in S : m <= k

Max(S) == CHOOSE m \in S : \A k \in S : m >= k

\* points[:, j]
Column(pts, j) == {pts[k][j] : k \in 1..Len(pts)}

GenererGrilleTransposed(pts, w, h) ==
    [x \in 1..w |-> [y \in 1..h |-> trouver_site_le_plus_proche(x - 1, y - 1, pts)]]

\* scalar strategy (phase 2): one classifier call per pixel (x, y)
generer_grille_voronoi(pts, w, h) ==
    [y \in 1..h |-> [x \in 1..w |-> trouver_site_le_plus_proche(x - 1, y - 1, pts)]]

\* phase 1: the square grid has side  max(0, int(coordinates)) + GrilleBorder
GrilleBorder == 10

RECURSIVE TailleMax(_, _, _)
TailleMax(mes_points, k, taille_max) ==
    IF k > Len(mes_points) THEN taille_max
    ELSE LET point == mes_points[k]
             t1 == IF point[1] > taille_max THEN point[1] ELSE taille_max
             t2 == IF point[2] > t1 THEN point[2] ELSE t1
         IN  TailleMax(mes_points, k + 1, t2)

\* a returned grid, or the None that generer_grille returns
NoGrid == [none |-> TRUE, cells |-> <<>>]

Grid(cells) == [none |-> FALSE, cells |-> cells]

generer_grille(mes_points) ==
    IF mes_points = <<>> THEN [grille |-> NoGrid, taille_max |-> NoGrid]
    ELSE LET taille_max == TailleMax(mes_points, 1, 0) + GrilleBorder
         IN  [grille |-> Grid([y \in 1..taille_max |-> [x \in 1..taille_max |->
                             trouver_point_plus_proche(x - 1, y - 1, mes_points)]]),
              taille_max |-> taille_max]

\* batched strategy.  Its samples are fractions: with padding num/den and
\* `resolution` samples per axis, every sample is a multiple of
\* 1 / GridScale, and the model keeps the numerators.
Intervals(num) == IF num > 1 THEN num - 1 ELSE 1

GridScale(pad, res) == pad[2] * Intervals(res)

\* np.linspace(start, stop, num): start + k (stop - start) / (num - 1),
\* the single sample `start` when num = 1; numerators over Intervals(num)
linspace(start, stop, num) ==
    [k \in 1..num |-> Intervals(num) * start + (k - 1) * (stop - start)]

RangeUnguarded(lo, hi) == hi - lo

\* range_x, range_y: the extent of the bounding box, 1.0 on a flat axis
Range(lo, hi) == IF hi > lo THEN hi - lo ELSE 1

\* the samples of axis j: linspace(min - padding * range, max + padding * range)
AxisSamples(pts, j, pad, res) ==
    LET lo == Min(Column(pts, j))
        hi == Max(Column(pts, j))
        range == Range(lo, hi)
    IN  linspace(pad[2] * lo - pad[1] * range, pad[2] * hi + pad[1] * range, res)

\* np.inf and the finite squared distances of min_dists
InfSq == [inf |-> TRUE, d |-> 0]

Sq(d) == [inf |-> FALSE, d |-> d]

SqLessOrEqual(a, b) == ~a.inf /\ (b.inf \/ a.d <= b.d)

SqLess(a, b) == ~a.inf /\ (b.inf \/ a.d < b.d)

DistSqSwapped(xs, ys, point, scale) ==
    [r \in 1..Len(ys) |-> [c \in 1..Len(xs) |->
        Sq((xs[c] - scale * point[2]) * (xs[c] - scale * point[2])
           + (ys[r] - scale * point[1]) * (ys[r] - scale * point[1]))]]

\* dist_sq = (X - point[0])**2 + (Y - point[1])**2, in units of 1 / GridScale^2
DistSq(xs, ys, point, scale) ==
    [r \in 1..Len(ys) |-> [c \in 1..Len(xs) |->
        Sq((xs[c] - scale * point[1]) * (xs[c] - scale * point[1])
           + (ys[r] - scale * point[2]) * (ys[r] - scale * point[2]))]]

MaskOrEqual(dist_sq, mins) ==
    [r \in 1..Len(mins) |-> [c \in 1..Len(mins[r]) |-> SqLessOrEqual(dist_sq[r][c], mins[r][c])]]

\* mask = dist_sq < min_dists
Mask(dist_sq, mins) ==
    [r \in 1..Len(mins) |-> [c \in 1..Len(mins[r]) |-> SqLess(dist_sq[r][c], mins[r][c])]]

KeepMins(a, mask, b) == a

\* a[mask] = b[mask]
Assign(a, mask, b) ==
    [r \in 1..Len(a) |-> [c \in 1..Len(a[r]) |-> IF mask[r][c] THEN b[r][c] ELSE a[r][c]]]

LabelOneBased(z, mask, i) ==
    [r \in 1..Len(z) |-> [c \in 1..Len(z[r]) |-> IF mask[r][c] THEN i + 1 ELSE z[r][c]]]

\* Z[mask] = i
Label(z, mask, i) ==
    [r \in 1..Len(z) |-> [c \in 1..Len(z[r]) |-> IF mask[r][c] THEN i ELSE z[r][c]]]

Full(res, v) == [r \in 1..res |-> [c \in 1..res |-> v]]

-----------------------------------------------------------------------------
(* The normaliser of the points *)
(*                                                                         *)
(* A normalised coordinate is an exact fraction [num, den] with den > 0.   *)

Fraction(n, d) == [num |-> n, den |-> d]

PlageUnguarded(lo, hi) == hi - lo

\* plage_x, plage_y: max - min, 1.0 when they are equal
Plage(lo, hi) == IF hi # lo THEN hi - lo ELSE 1

NormaliserAxeSansMarge(p, lo, plage, dim, m) == Fraction((p - lo) * dim, plage)

NormaliserAxeInverse(p, lo, plage, dim, m) ==
    Fraction(m * plage + (lo + plage - p) * (dim - 2 * m), plage)

\* marge + (p - min) / plage * (dimension - 2 * marge)
NormaliserAxe(p, lo, plage, dim, m) ==
    LET quotient == Fraction(p - lo, plage)
        scaled == Fraction(quotient.num * (dim - 2 * m), quotient.den)
    IN  Fraction(m * scaled.den + scaled.num, scaled.den)

NormRaised(kind) == [raised |-> kind, value |-> <<>>]

NormReturned(list) == [raised |-> "none", value |-> list]

normaliser_points(pts, w, h, m) ==
    IF pts = <<>> THEN NormRaised("ValueError")      \* min() of an empty list
    ELSE LET x_min == Min(Column(pts, 1))
             x_max == Max(Column(pts, 1))
             y_min == Min(Column(pts, 2))
             y_max == Max(Column(pts, 2))
             plage_x == Plage(x_min, x_max)
             plage_y == Plage(y_min, y_max)
         IN  IF plage_x = 0 \/ plage_y = 0 THEN NormRaised("ZeroDivisionError")
             ELSE NormReturned([k \in 1..Len(pts) |->
                     <<NormaliserAxe(pts[k][1], x_min, plage_x, w, m),
                       NormaliserAxe(pts[k][2], y_min, plage_y, h, m)>>])

-----------------------------------------------------------------------------
(* The bisector-intersection regions (Grok variant) *)
(*                                                                         *)
(* Sites are integer points.  A vertex is an exact point [x, y, den] =     *)
(* (x / den, y / den) with den > 0.  The midpoints (point + p) / 2 are     *)
(* kept doubled, and the directions of the bisectors are kept without the  *)
(* division by their norm, which changes the parameter ts but not the      *)
(* intersection point.                                                     *)

NoPoint == [none |-> TRUE, x |-> 0, y |-> 0, den |-> 1]

Vertex(x, y, den) ==
    IF den > 0 THEN [none |-> FALSE, x |-> x, y |-> y, den |-> den]
    ELSE [none |-> FALSE, x |-> -x, y |-> -y, den |-> -den]

\* the determinant of A = [d1, -d2].T
Det(d1, d2) == d2[1] * d1[2] - d1[1] * d2[2]

LineIntersectionOrMidpoint(m1, d1, m2, d2) ==
    IF Det(d1, d2) = 0 THEN Vertex(m1[1], m1[2], 2)
    ELSE LET t == d2[1] * (m2[2] - m1[2]) - d2[2] * (m2[1] - m1[1])
         IN  Vertex(m1[1] * Det(d1, d2) + t * d1[1],
                    m1[2] * Det(d1, d2) + t * d1[2], 2 * Det(d1, d2))

\* line_intersection(p1, d1, p2, d2) with p1 = m1 / 2, p2 = m2 / 2:
\* ts = solve(A, p2 - p1) by Cramer's rule, the point p1 + ts[0] * d1;
\* None when solve raises LinAlgError (singular matrix)
line_intersection(m1, d1, m2, d2) ==
    IF Det(d1, d2) = 0 THEN NoPoint
    ELSE LET t == d2[1] * (m2[2] - m1[2]) - d2[2] * (m2[1] - m1[1])
         IN  Vertex(m1[1] * Det(d1, d2) + t * d1[1],
                    m1[2] * Det(d1, d2) + t * d1[2], 2 * Det(d1, d2))

\* mid = (point + p) / 2, doubled
Mid2(point, p) == <<point[1] + p[1], point[2] + p[2]>>

\* perp = [-dir[1], dir[0]] with dir = p - point
Perp(point, p) == <<-(p[2] - point[2]), p[1] - point[1]>>

PairIntersectionNeverDropped(point, p1, p2) ==
    LineIntersectionOrMidpoint(Mid2(point, p1), Perp(point, p1), Mid2(point, p2), Perp(point, p2))

\* the intersection of the bisectors of (point, p1) and (point, p2)
PairIntersection(point, p1, p2) ==
    line_intersection(Mid2(point, p1), Perp(point, p1), Mid2(point, p2), Perp(point, p2))

\* [p for p in points if not np.allclose(p, point)]
Neighbors(point, pts) == SelectSeq(pts, LAMBDA p : p # point)

\* np.angle of (v - point): the sector of atan2 in (-pi, pi], then the turn
Direction(v, point) == <<v.x - v.den * point[1], v.y - v.den * point[2]>>

Sector(d) ==
    IF d[2] < 0 THEN 0
    ELSE IF d[2] = 0 /\ d[1] >= 0 THEN 1
    ELSE IF d[2] > 0 THEN 2
    ELSE 3

AngleLess(u, v, point) ==
    LET du == Direction(u, point)
        dv == Direction(v, point)
    IN  \/ Sector(du) < Sector(dv)
        \/ /\ Sector(du) = Sector(dv)
           /\ du[1] * dv[2] - du[2] * dv[1] > 0

\* np.argsort(angles): ascending, equal angles in their order of appearance
RECURSIVE InsertByAngle(_, _, _)
InsertByAngle(sorted, v, point) ==
    IF sorted = <<>> THEN <<v>>
    ELSE IF AngleLess(v, sorted[Len(sorted)], point)
         THEN Append(InsertByAngle(SubSeq(sorted, 1, Len(sorted) - 1), v, point),
                     sorted[Len(sorted)])
         ELSE Append(sorted, v)

KeepOrder(vs, point) == vs

RECURSIVE SortByAngle(_, _)
SortByAngle(vs, point) ==
    IF vs = <<>> THEN <<>>
    ELSE InsertByAngle(SortByAngle(SubSeq(vs, 1, Len(vs) - 1), point), vs[Len(vs)], point)

\* what compute_region returns: None, or the array of the sorted vertices
NoRegion == [none |-> TRUE, vertices |-> <<>>]

RegionOf(vs, point) ==
    IF vs # <<>> THEN [none |-> FALSE, vertices |-> SortByAngle(vs, point)]
    ELSE NoRegion

DrawableAny(reg) == ~reg.none

\* region is not None and len(region) > 2
Drawable(reg) == ~reg.none /\ Len(reg.vertices) > 2

Generators == {"generate_voronoi_grid", "generer_grille_voronoi", "generer_grille"}

\* padding as a fraction: 0.0, 0.1 (the default of Fusion), 0.2 (of Gemini)
Paddings == {<<0, 1>>, <<1, 10>>, <<1, 5>>}

Resolutions == 1..MaxResolution

GridSiteCoords == {0, 1, 3}

GridSitePoints == GridSiteCoords \X GridSiteCoords

GridSiteLists(lo, hi) == UNION {[1..n -> GridSitePoints] : n \in lo..hi}

\* grid dimensions and margins on both sides of  dimension = 2 * marge
Dimensions == {6, 10}

Marges == {0, 2, 3, 4}

NormPointLists == GridSiteLists(0, MaxSites)

NotCalled == NormRaised("not called")

\* the sites of the regions: a square, its centre (three of them in line)
RegionSitePoints == {<<0, 0>>, <<2, 0>>, <<0, 2>>, <<2, 2>>, <<1, 1>>}

RegionSiteLists == UNION {[1..n -> RegionSitePoints] : n \in 1..MaxRegionSites}

IdleRead ==
    /\ reader = "lire_coordonnees" /\ source = "present" /\ contents = <<>>
    /\ written = <<>> /\ line_number = 0 /\ points = <<>>
    /\ outcome = NoOutcome /\ pc = "done"

IdleDist == point1 = <<0, 0>> /\ point2 = <<0, 0>> /\ dist = NoDist

IdleNear ==
    /\ classifier = "trouver_site_le_plus_proche" /\ pixel = <<0, 0>>
    /\ liste_points = <<>> /\ index_plus_proche = 0 /\ cpc = "returned"

IdleGrid ==
    /\ generator = "generer_grille" /\ grid_points = <<>>
    /\ largeur = 0 /\ hauteur = 0 /\ resolution = 0 /\ padding = <<0, 1>>
    /\ axis_x = <<>> /\ axis_y = <<>> /\ min_dists = <<>> /\ Z = <<>>
    /\ site_index = 0 /\ grille = NoGrid /\ gpc = "done"

IdleNorm ==
    /\ norm_points = <<>> /\ norm_largeur = 0 /\ norm_hauteur = 0 /\ marge = 0
    /\ points_normalises = NotCalled /\ npc = "done"

IdleRegion ==
    /\ region_points = <<>> /\ site = 0 /\ neighbors = <<>>
    /\ pair_i = 0 /\ pair_j = 1 /\ vertices = <<>> /\ region = NoRegion
    /\ filled = {} /\ rpc = "done"
    /\ vor = [called |-> FALSE, none |-> TRUE, vertices |-> <<>>]

IdleShell ==
    /\ shell = "ChatGPT" /\ held = 0 /\ built = 0
    /\ gen_enabled = FALSE /\ exp_enabled = FALSE /\ suspended = "none" /\ files = {}

IdleEdges ==
    /\ edge_points = <<>> /\ edge_bounds = <<0, 0, 0, 0>>
    /\ edge_i = 0 /\ edge_j = 0
    /\ bisector = [a |-> 0, b |-> 0, c |-> [num |-> 0, den |-> 1]] /\ edges = <<>> /\ epc = "done"

-----------------------------------------------------------------------------
(* The reader specification: one call of one reader on one source *)

InitRead ==
    /\ reader \in Readers
    /\ source \in SourceStates
    /\ \/ written = <<>> /\ contents \in TextFiles
       \/ written \in WrittenPointSets /\ contents = Serialize(written)
    /\ line_number = 0
    /\ points = <<>>
    /\ outcome = NoOutcome
    /\ pc = "call"
    /\ IdleDist
    /\ IdleNear
    /\ IdleGrid
    /\ IdleNorm
    /\ IdleRegion
    /\ IdleShell
    /\ IdleEdges

Open ==
    /\ pc = "call"
    /\ outcome' = OpenSource(reader, source)
    /\ pc' = IF source = "present" THEN "loop" ELSE "done"
    /\ UNCHANGED <<reader, source, contents, written, line_number, points, notReader>>

ReadLine ==
    /\ pc = "loop"
    /\ line_number < Len(contents)
    /\ LET step == LineStep(reader, line_number + 1, contents[line_number + 1], points)
       IN  /\ line_number' = line_number + 1
           /\ points' = step.points
           /\ outcome' = step.exc
           /\ pc' = IF step.raised THEN "done" ELSE "loop"
    /\ UNCHANGED <<reader, source, contents, written, notReader>>

Finish ==
    /\ pc = "loop"
    /\ line_number = Len(contents)
    /\ outcome' = EndOfFile(reader, points)
    /\ pc' = "done"
    /\ UNCHANGED <<reader, source, contents, written, line_number, points, notReader>>

NextRead == Open \/ ReadLine \/ Finish

SpecRead == InitRead /\ [][NextRead]_vars

-----------------------------------------------------------------------------
(* The distance specification: calculer_distance on two points, both ways *)

InitDist ==
    /\ point1 \in DistCoords \X DistCoords
    /\ point2 \in DistCoords \X DistCoords
    /\ dist = NoDist
    /\ IdleRead
    /\ IdleNear
    /\ IdleGrid
    /\ IdleNorm
    /\ IdleRegion
    /\ IdleShell
    /\ IdleEdges

Measure ==
    /\ ~dist.measured
    /\ dist' = [ab |-> calculer_distance(point1, point2),
                ba |-> calculer_distance(point2, point1),
                aa |-> calculer_distance(point1, point1),
                ab1 |-> Phase1CalculerDistance(point1, point2),
                ba1 |-> Phase1CalculerDistance(point2, point1),
                aa1 |-> Phase1CalculerDistance(point1, point1),
                measured |-> TRUE]
    /\ UNCHANGED <<point1, point2, notDist>>

NextDist == Measure

SpecDist == InitDist /\ [][NextDist]_vars

-----------------------------------------------------------------------------
(* The classifier specification: one call on one pixel and one site list *)

InitNear ==
    /\ classifier \in Classifiers
    /\ pixel \in GridPoints
    /\ liste_points \in SiteLists
    /\ index_plus_proche = 0
    /\ cpc = "call"
    /\ IdleRead
    /\ IdleDist
    /\ IdleGrid
    /\ IdleNorm
    /\ IdleRegion
    /\ IdleShell
    /\ IdleEdges

CallClassifier ==
    /\ cpc = "call"
    /\ index_plus_proche' = Classify(classifier, pixel[1], pixel[2], liste_points)
    /\ cpc' = "returned"
    /\ UNCHANGED <<classifier, pixel, liste_points, notNear>>

NextNear == CallClassifier

SpecNear == InitNear /\ [][NextNear]_vars

-----------------------------------------------------------------------------
(* The grid specification: one call of one generator on one site list *)

InitGrid ==
    /\ generator \in Generators
    /\ \/ /\ generator = "generate_voronoi_grid"
          /\ grid_points \in GridSiteLists(1, MaxSites)
          /\ resolution \in Resolutions /\ padding \in Paddings
          /\ largeur = 0 /\ hauteur = 0
       \/ /\ generator = "generer_grille_voronoi"
          /\ grid_points \in GridSiteLists(1, MaxSites)
          /\ largeur \in Resolutions /\ hauteur \in Resolutions
          /\ resolution = 0 /\ padding = <<0, 1>>
       \/ /\ generator = "generer_grille"
          /\ grid_points \in GridSiteLists(0, MaxSites - 1)
          /\ largeur = 0 /\ hauteur = 0
          /\ resolution = 0 /\ padding = <<0, 1>>
    /\ axis_x = <<>> /\ axis_y = <<>> /\ min_dists = <<>> /\ Z = <<>>
    /\ site_index = 0
    /\ grille = NoGrid
    /\ gpc = "call"
    /\ IdleRead
    /\ IdleDist
    /\ IdleNear
    /\ IdleNorm
    /\ IdleRegion
    /\ IdleShell
    /\ IdleEdges

\* generate_voronoi_grid up to its loop: bounding box, samples, Z and min_dists
StartGrid ==
    /\ gpc = "call"
    /\ generator = "generate_voronoi_grid"
    /\ axis_x' = AxisSamples(grid_points, 1, padding, resolution)
    /\ axis_y' = AxisSamples(grid_points, 2, padding, resolution)
    /\ Z' = Full(resolution, 0)
    /\ min_dists' = Full(resolution, InfSq)
    /\ site_index' = 0
    /\ gpc' = "loop"
    /\ UNCHANGED <<generator, grid_points, largeur, hauteur, resolution, padding,
                   grille, notGrid>>

\* one iteration of `for i, point in enumerate(points)`
ProcessSite ==
    /\ gpc = "loop"
    /\ site_index < Len(grid_points)
    /\ LET i == site_index
           dist_sq == DistSq(axis_x, axis_y, grid_points[i + 1],
                             GridScale(padding, resolution))
           mask == Mask(dist_sq, min_dists)
       IN  /\ min_dists' = Assign(min_dists, mask, dist_sq)
           /\ Z' = Label(Z, mask, i)
           /\ site_index' = i + 1
    /\ UNCHANGED <<generator, grid_points, largeur, hauteur, resolution, padding,
                   axis_x, axis_y, grille, gpc, notGrid>>

\* return X, Y, Z
ReturnGrid ==
    /\ gpc = "loop"
    /\ site_index = Len(grid_points)
    /\ gpc' = "done"
    /\ UNCHANGED <<generator, grid_points, largeur, hauteur, resolution, padding,
                   axis_x, axis_y, min_dists, Z, site_index, grille, notGrid>>

GenererGrilleVoronoi ==
    /\ gpc = "call"
    /\ generator = "generer_grille_voronoi"
    /\ grille' = Grid(generer_grille_voronoi(grid_points, largeur, hauteur))
    /\ gpc' = "done"
    /\ UNCHANGED <<generator, grid_points, largeur, hauteur, resolution, padding,
                   axis_x, axis_y, min_dists, Z, site_index, notGrid>>

GenererGrille ==
    /\ gpc = "call"
    /\ generator = "generer_grille"
    /\ grille' = generer_grille(grid_points).grille
    /\ gpc' = "done"
    /\ UNCHANGED <<generator, grid_points, largeur, hauteur, resolution, padding,
                   axis_x, axis_y, min_dists, Z, site_index, notGrid>>

NextGrid == StartGrid \/ ProcessSite \/ ReturnGrid \/ GenererGrilleVoronoi \/ GenererGrille

SpecGrid == InitGrid /\ [][NextGrid]_vars

-----------------------------------------------------------------------------
(* The normaliser specification: one call of normaliser_points *)

InitNorm ==
    /\ norm_points \in NormPointLists
    /\ norm_largeur \in Dimensions
    /\ norm_hauteur \in Dimensions
    /\ marge \in Marges
    /\ points_normalises = NotCalled
    /\ npc = "call"
    /\ IdleRead
    /\ IdleDist
    /\ IdleNear
    /\ IdleGrid
    /\ IdleRegion
    /\ IdleShell
    /\ IdleEdges

NormaliserPoints ==
    /\ npc = "call"
    /\ points_normalises' = normaliser_points(norm_points, norm_largeur, norm_hauteur, marge)
    /\ npc' = "done"
    /\ UNCHANGED <<norm_points, norm_largeur, norm_hauteur, marge, notNorm>>

NextNorm == NormaliserPoints

SpecNorm == InitNorm /\ [][NextNorm]_vars

-----------------------------------------------------------------------------
(* The region specification: plot_voronoi on one site list, calling        *)
(* compute_region for each point in turn                                   *)

InitRegion ==
    /\ region_points \in RegionSiteLists
    /\ site = 0
    /\ neighbors = <<>>
    /\ pair_i = 0 /\ pair_j = 1
    /\ vertices = <<>>
    /\ region = NoRegion
    /\ filled = {}
    /\ rpc = "call"
    /\ vor = [called |-> FALSE, none |-> TRUE, vertices |-> <<>>]
    /\ IdleRead
    /\ IdleDist
    /\ IdleNear
    /\ IdleGrid
    /\ IdleNorm
    /\ IdleShell
    /\ IdleEdges

\* compute_region(point, points) up to its loops
FilterNeighbors ==
    /\ rpc = "call"
    /\ neighbors' = Neighbors(region_points[site + 1], region_points)
    /\ vertices' = <<>>
    /\ pair_i' = 0 /\ pair_j' = 1
    /\ rpc' = "pairs"
    /\ UNCHANGED <<region_points, site, region, filled, notRegion>>

\* one iteration of the loops over i < j
PairStep ==
    /\ rpc = "pairs"
    /\ pair_j < Len(neighbors)
    /\ LET inter == PairIntersection(region_points[site + 1],
                                     neighbors[pair_i + 1], neighbors[pair_j + 1])
       IN  vertices' = IF ~inter.none THEN Append(vertices, inter) ELSE vertices
    /\ IF pair_j + 1 < Len(neighbors)
       THEN pair_i' = pair_i /\ pair_j' = pair_j + 1
       ELSE pair_i' = pair_i + 1 /\ pair_j' = pair_i + 2
    /\ UNCHANGED <<region_points, site, neighbors, region, filled, rpc, notRegion>>

\* the end of compute_region: sort the vertices by angle, or return None
ReturnRegion ==
    /\ rpc = "pairs"
    /\ pair_j >= Len(neighbors)
    /\ region' = RegionOf(vertices, region_points[site + 1])
    /\ rpc' = "returned"
    /\ UNCHANGED <<region_points, site, neighbors, pair_i, pair_j, vertices, filled,
                   notRegion>>

\* plot_voronoi: fill and outline the region, then go to the next point
PlotRegion ==
    /\ rpc = "returned"
    /\ filled' = IF Drawable(region) THEN filled \cup {site} ELSE filled
    /\ IF site + 1 < Len(region_points)
       THEN site' = site + 1 /\ rpc' = "call"
       ELSE site' = site /\ rpc' = "done"
    /\ UNCHANGED <<region_points, neighbors, pair_i, pair_j, vertices, region, notRegion>>

\* generate_voronoi: a placeholder, `return None` whatever the points
generate_voronoi(pts) == [called |-> TRUE, none |-> TRUE, vertices |-> <<>>]

\* vor = generate_voronoi(points), before the points are plotted
GenerateVoronoi ==
    /\ rpc = "call" /\ site = 0
    /\ ~vor.called
    /\ vor' = generate_voronoi(region_points)
    /\ UNCHANGED <<region_points, site, neighbors, pair_i, pair_j, vertices, region,
                   filled, rpc, readerVars, distVars, nearVars, gridVars, normVars,
                   shellVars, edgeVars>>

NextRegion == FilterNeighbors \/ PairStep \/ ReturnRegion \/ PlotRegion \/ GenerateVoronoi

SpecRegion == InitRegion /\ [][NextRegion]_vars

-----------------------------------------------------------------------------
(* What the specification of the readers says of a line, stated on the     *)
(* characters of the line and not through the readers' own operators.      *)

Blank(line) == \A i \in 1..Len(line) : IsSpace(line[i])

FieldCount(line) == Cardinality({i \in 1..Len(line) : line[i] = ","}) + 1

Unsigned(t) == IF t # <<>> /\ Head(t) \in {"+", "-"} THEN Tail(t) ELSE t

\* a finite decimal literal: an optional sign, digits, at most one point
IsDecimalLiteral(field) ==
    LET body == Unsigned(Strip(field))
    IN  /\ \A i \in 1..Len(body) : IsDigit(body[i]) \/ body[i] = "."
        /\ Cardinality({i \in 1..Len(body) : body[i] = "."}) <= 1
        /\ \E i \in 1..Len(body) : IsDigit(body[i])

\* the literals of a non-finite value, which float() accepts as well
IsNonFiniteLiteral(field) ==
    Unsigned(Strip(field)) \in
        {<<"i", "n", "f">>, <<"n", "a", "n">>, <<"i", "n", "f", "i", "n", "i", "t", "y">>}

TwoFields(line) == ~Blank(line) /\ FieldCount(line) = 2

Malformed(line) == ~Blank(line) /\ FieldCount(line) # 2

\* two fields, one of which is no finite decimal literal
NonNumeric(line) ==
    /\ TwoFields(line)
    /\ \E j \in 1..2 : ~IsDecimalLiteral(Split(Strip(line), ",")[j])

ValidLine(line) ==
    /\ TwoFields(line)
    /\ \A j \in 1..2 : IsDecimalLiteral(Split(Strip(line), ",")[j])

\* two fields that float() converts, finite or not
ConvertibleLine(line) ==
    /\ TwoFields(line)
    /\ \A j \in 1..2 : LET f == Split(Strip(line), ",")[j]
                       IN  IsDecimalLiteral(f) \/ IsNonFiniteLiteral(f)

NonBlankLines(file) == {i \in 1..Len(file) : ~Blank(file[i])}

\* line k is the first line of the file that is neither blank nor valid
FirstOffending(file, k) ==
    /\ k \in 1..Len(file)
    /\ ~Blank(file[k]) /\ ~ValidLine(file[k])
    /\ \A i \in 1..(k - 1) : Blank(file[i]) \/ ValidLine(file[i])

WellFormedFile(file) == \A i \in 1..Len(file) : Blank(file[i]) \/ ValidLine(file[i])

\* the messages that name the expected format of a line
ExpectedFormatTexts ==
    {"Ligne {numero_ligne} mal formatee : '{ligne}'. Format attendu : x,y",
     "Format incorrect a la ligne {line_idx}. Attendu : x,y",
     "Format incorrect ligne {line_idx + 1}. Attendu : x,y",
     "Ligne {line_num}: Doit contenir exactement deux valeurs separees par une virgule."}

\* the messages of the malformed-line error, with or without the format
MalformedTexts == ExpectedFormatTexts \cup {"Format incorrect a la ligne {line_number}."}

NonNumericTexts ==
    {"Ligne {numero_ligne} : impossible de convertir '{valeurs[0]}' ou '{valeurs[1]}' en nombre.",
     "Valeurs non numeriques a la ligne {line_idx}.",
     "Coordonnees non numeriques ligne {line_idx + 1}.",
     "Valeur non numerique a la ligne {line_number}.",
     "Ligne {line_num}: Valeurs non numeriques."}

\* the messages of the insufficient-points error; each states the 2 required
InsufficientTexts ==
    {"Le fichier doit contenir au moins 2 points. Seulement {len(points)} point(s) trouve(s).",
     "Le fichier doit contenir au moins 2 points pour generer un diagramme.",
     "Au moins deux points sont requis.",
     "Au moins 2 points sont requis pour generer un diagramme de Voronoi."}

Says(o, texts) == \E i \in 1..Len(o.text) : o.text[i] \in texts

Phase2Done == pc = "done" /\ reader \in Phase2Readers /\ source = "present"

-----------------------------------------------------------------------------
(* C1: in every phase-2 reader, when the first offending line of the       *)
(* source is a non-blank line that does not split into exactly two fields, *)
(* the call raises a ValueError for a malformed line whose message gives   *)
(* that line's 1-based number (blank lines counted) and the expected       *)
(* format.  Stated as claimed; read_points leaves the format out.          *)
C1_MalformedLineReported ==
    Phase2Done =>
        \A k \in 1..Len(contents) :
            (FirstOffending(contents, k) /\ Malformed(contents[k])) =>
                /\ outcome.kind = "ValueError"
                /\ Says(outcome, MalformedTexts)
                /\ outcome.line = k
                /\ Says(outcome, ExpectedFormatTexts)

(* C2: in every phase-2 reader, when the first offending line has two      *)
(* fields of which one is no finite decimal literal ('abc', 'inf', 'nan'), *)
(* the call raises the non-numeric-value error, whose message gives the    *)
(* line's number and the offending field.  Stated as claimed.              *)
C2_NonNumericReported ==
    Phase2Done =>
        \A k \in 1..Len(contents) :
            (FirstOffending(contents, k) /\ NonNumeric(contents[k])) =>
                /\ outcome.kind = "ValueError"
                /\ Says(outcome, NonNumericTexts)
                /\ outcome.line = k
                /\ \E j \in 1..2 :
                      LET f == Split(Strip(contents[k]), ",")[j]
                      IN  ~IsDecimalLiteral(f) /\ \E i \in 1..Len(outcome.shown) : outcome.shown[i] = f

(* C3: in every phase-2 reader, a source whose lines are all blank or      *)
(* valid and which holds fewer than 2 points raises the insufficient-      *)
(* points error, whose message states the number required and the number   *)
(* found.  Stated as claimed.                                              *)
C3_InsufficientReported ==
    Phase2Done =>
        ((WellFormedFile(contents) /\ Cardinality(NonBlankLines(contents)) < MinPoints) =>
            /\ outcome.kind = "ValueError"
            /\ Says(outcome, InsufficientTexts)
            /\ outcome.found = Cardinality(NonBlankLines(contents)))

(* C4: a source that does not exist or cannot be read makes every phase-2  *)
(* reader raise FileNotFoundError, whatever the file holds, and never a    *)
(* ValueError.  Stated as claimed.                                         *)
C4_SourceNotFoundFirst ==
    (pc = "done" /\ reader \in Phase2Readers /\ source # "present") =>
        outcome.kind = "FileNotFoundError"

(* C5: parsing is all-or-nothing: a phase-2 reader returns a point         *)
(* sequence only when every non-blank line is valid (two finite decimal    *)
(* fields) and there are at least 2 of them; for every other source it     *)
(* raises and returns nothing.  Stated as claimed.                         *)
C5_AllOrNothing ==
    Phase2Done =>
        /\ outcome.kind = "ok" =>
              WellFormedFile(contents) /\ Cardinality(NonBlankLines(contents)) >= MinPoints
        /\ ~(WellFormedFile(contents) /\ Cardinality(NonBlankLines(contents)) >= MinPoints) =>
              outcome.kind \notin {"ok", "none"} /\ outcome.points = <<>>

\* the all-or-nothing property with "valid" read as "float() converts both
\* fields", which lets the non-finite literals through (checked alongside C5)
AllOrNothingOfConvertible ==
    Phase2Done =>
        LET good == /\ \A i \in NonBlankLines(contents) : ConvertibleLine(contents[i])
                    /\ Cardinality(NonBlankLines(contents)) >= MinPoints
        IN  /\ outcome.kind = "ok" => good
            /\ ~good => outcome.kind \notin {"ok", "none"} /\ outcome.points = <<>>

(* C6: in every phase-2 reader blank and whitespace-only lines are passed  *)
(* over: inside the loop and in the returned sequence there is exactly one *)
(* point per non-blank line consumed, no error is raised on a blank line,  *)
(* and a source whose non-blank lines all convert, at least 2 of them,     *)
(* is returned whatever blank lines it holds.                              *)
C6_BlankLinesSkipped ==
    (reader \in Phase2Readers /\ source = "present") =>
        /\ (pc = "loop" \/ outcome.kind = "ok") =>
              Len(points) = Cardinality({i \in NonBlankLines(contents) : i <= line_number})
        /\ outcome.kind = "ok" =>
              Len(outcome.points) = Cardinality(NonBlankLines(contents))
        /\ (pc = "done" /\ outcome.kind # "ok" /\ outcome.line > 0) =>
              ~Blank(contents[outcome.line])
        /\ ( /\ pc = "done"
             /\ \A i \in NonBlankLines(contents) : ConvertibleLine(contents[i])
             /\ Cardinality(NonBlankLines(contents)) >= MinPoints ) =>
              outcome.kind = "ok"

C6_Witness ==
    /\ Phase2Done
    /\ outcome.kind = "ok"
    /\ \E i \in 1..Len(contents) : contents[i] = <<" ", "\t">>
    /\ Len(outcome.points) = 2

(* C7: round trip: when a sequence of at least 2 points is written one     *)
(* "x,y" line a point, every phase-2 reader returns it: same length, the   *)
(* point at index i from the i-th line, each coordinate equal to the one   *)
(* written.                                                                *)
C7_RoundTrip ==
    (Phase2Done /\ written # <<>>) =>
        /\ outcome.kind = "ok"
        /\ Len(outcome.points) = Len(written)
        /\ \A i \in 1..Len(written) :
              /\ outcome.points[i][1] = written[i][1]
              /\ outcome.points[i][2] = written[i][2]

C7_Witness ==
    /\ Phase2Done
    /\ written # <<>>
    /\ outcome.kind = "ok"
    /\ written[1] = <<Dec(-5, 2), Dec(10, 0)>>
    /\ written[2] = <<Dec(53, 1), Dec(2, 0)>>
    /\ outcome.points = written

-----------------------------------------------------------------------------
(* What the specification says of distances, on exact integers *)

SquaredDistance(p, q) == (p[1] - q[1]) * (p[1] - q[1]) + (p[2] - q[2]) * (p[2] - q[2])

\* the square of a distance value
Square(d) == d.root * d.root + d.rem

IsExactly(d, k) == ~d.inf /\ d.root = k /\ d.rem = 0

Positive(d) == ~d.inf /\ (d.root > 0 \/ d.rem > 0)

MetricValue(ab, ba, aa) ==
    /\ ab = ba
    /\ IsExactly(aa, 0)
    /\ point1 # point2 => Positive(ab)
    /\ ~ab.inf /\ Square(ab) = SquaredDistance(point1, point2)
    /\ (point1 = <<0, 0>> /\ point2 = <<3, 4>>) => IsExactly(ab, 5)

\* site number j (from 0) of the list
Site(j) == liste_points[j + 1]

(* C9: for every pixel and every non-empty site list both classifiers      *)
(* return an index i in [0, len(sites)) such that no site is strictly      *)
(* closer to the pixel than site i and every site of a lower index is      *)
(* strictly farther: the lowest index wins a tie, so the answer is unique. *)
C9_NearestLowestIndex ==
    (cpc = "returned" /\ liste_points # <<>>) =>
        LET i == index_plus_proche
            n == Len(liste_points)
        IN  /\ i \in 0..(n - 1)
            /\ \A j \in 0..(n - 1) :
                  /\ SquaredDistance(pixel, Site(j)) >= SquaredDistance(pixel, Site(i))
                  /\ j < i => SquaredDistance(pixel, Site(j)) > SquaredDistance(pixel, Site(i))

C9_Witness ==
    /\ cpc = "returned"
    /\ Len(liste_points) = 3
    /\ index_plus_proche = 1
    /\ SquaredDistance(pixel, Site(2)) = SquaredDistance(pixel, Site(1))
    /\ SquaredDistance(pixel, Site(0)) > SquaredDistance(pixel, Site(1))
    /\ Site(2) # Site(1)

(* C10: calculer_distance (phase 2 and phase 1) is a metric value: for all *)
(* points A, B it is the same from A to B and from B to A, it is 0 from A  *)
(* to A, positive when A and B differ, and its square is dx*dx + dy*dy, so *)
(* the distance from (0,0) to (3,4) is 5.                                  *)
C10_DistanceMetric ==
    dist.measured =>
        /\ MetricValue(dist.ab, dist.ba, dist.aa)
        /\ MetricValue(dist.ab1, dist.ba1, dist.aa1)

C10_Witness ==
    /\ dist.measured
    /\ point1 = <<0, 0>>
    /\ point2 = <<3, 4>>
    /\ IsExactly(dist.ab, 5)
    /\ IsExactly(dist.ba, 5)

-----------------------------------------------------------------------------
(* Label grids *)

GridDone(g) == gpc = "done" /\ generator = g

\* the sites of generate_voronoi_grid in the units of its samples
ScaledSites ==
    [k \in 1..Len(grid_points) |->
        <<GridScale(padding, resolution) * grid_points[k][1],
          GridScale(padding, resolution) * grid_points[k][2]>>]

\* the sample of cell (r, c) of Z, rows and columns counted from 0
Sample(r, c) == <<axis_x[c + 1], axis_y[r + 1]>>

Cells == (0..(resolution - 1)) \X (0..(resolution - 1))

CellLabel(cell) == Z[cell[1] + 1][cell[2] + 1]

(* C11 as stated: for every site list and grid size the scalar strategy    *)
(* generer_grille_voronoi and the batched strategy generate_voronoi_grid   *)
(* return the same label grid, cell for cell.                              *)
C11_GridsIdentical ==
    GridDone("generate_voronoi_grid") =>
        Z = generer_grille_voronoi(grid_points, resolution, resolution)

(* C11 amended: the two strategies agree on every sample: each cell of the *)
(* grid of generate_voronoi_grid holds the index the scalar classifier     *)
(* trouver_site_le_plus_proche returns for that cell's sample (x[c], y[r]) *)
(* (the grids differ because generer_grille_voronoi samples the integer    *)
(* pixels and generate_voronoi_grid the padded bounding box).              *)
C11_SameLabelPerSample ==
    GridDone("generate_voronoi_grid") =>
        \A cell \in Cells :
            CellLabel(cell) =
                trouver_site_le_plus_proche(Sample(cell[1], cell[2])[1],
                                            Sample(cell[1], cell[2])[2], ScaledSites)

C11_Witness ==
    /\ GridDone("generate_voronoi_grid")
    /\ Len(grid_points) = 3
    /\ Z # generer_grille_voronoi(grid_points, resolution, resolution)
    /\ \E cell \in Cells :
          /\ CellLabel(cell) = 1
          /\ ScaledSites[2] # ScaledSites[3]
          /\ SquaredDistance(Sample(cell[1], cell[2]), ScaledSites[2])
               = SquaredDistance(Sample(cell[1], cell[2]), ScaledSites[3])

\* the labels of a grid
Labels(grid) == {grid[r][c] : r \in 1..Len(grid), c \in 1..Len(grid[1])}

\* the grid a finished call returned
Returned_grid == IF generator = "generate_voronoi_grid" THEN Grid(Z) ELSE grille

(* C12: every cell of a label grid returned by generer_grille_voronoi, by  *)
(* generate_voronoi_grid or by the phase-1 generer_grille is a site index: *)
(* 0 <= v < len(sites).                                                    *)
C12_LabelsInRange ==
    (gpc = "done" /\ ~Returned_grid.none) =>
        \A v \in Labels(Returned_grid.cells) : 0 <= v /\ v < Len(grid_points)

C12_Witness ==
    /\ GridDone("generer_grille")
    /\ Len(grid_points) = 2
    /\ Labels(grille.cells) = {0, 1}

\* site v (from 0) is a nearest site of pts to the point p
IsNearest(v, p, pts) ==
    /\ v \in 0..(Len(pts) - 1)
    /\ \A j \in 1..Len(pts) : SquaredDistance(p, pts[j]) >= SquaredDistance(p, pts[v + 1])

HasShape(grid, rows, cols) ==
    Len(grid) = rows /\ \A r \in 1..rows : Len(grid[r]) = cols

\* the samples of an axis go up: never down, and strictly up unless the
\* axis is a single value
Increasing(axis) ==
    \A k \in 1..(Len(axis) - 1) :
        /\ axis[k] <= axis[k + 1]
        /\ axis[1] < axis[Len(axis)] => axis[k] < axis[k + 1]

(* C13: a label grid has shape (height, width), one label per cell, and    *)
(* cell (row, col) holds a nearest site of the sample with y given by the  *)
(* row and x by the column, row 0 being the lowest y: grille[y, x] of      *)
(* generer_grille_voronoi is nearest to pixel (x, y), and Z[r, c] of       *)
(* generate_voronoi_grid is nearest to (x[c], y[r]) with y increasing in r.*)
C13_ShapeAndIndexing ==
    /\ GridDone("generer_grille_voronoi") =>
          /\ HasShape(grille.cells, hauteur, largeur)
          /\ \A y \in 0..(hauteur - 1), x \in 0..(largeur - 1) :
                IsNearest(grille.cells[y + 1][x + 1], <<x, y>>, grid_points)
    /\ GridDone("generate_voronoi_grid") =>
          /\ HasShape(Z, resolution, resolution)
          /\ Len(axis_x) = resolution /\ Len(axis_y) = resolution
          /\ Increasing(axis_x) /\ Increasing(axis_y)
          /\ \A cell \in Cells :
                IsNearest(CellLabel(cell), Sample(cell[1], cell[2]), ScaledSites)

C13_Witness ==
    /\ GridDone("generer_grille_voronoi")
    /\ largeur = 3 /\ hauteur = 2
    /\ grille.cells[1][3] = 1
    /\ grille.cells[2][1] = 0

\* the corners of the bounding box of the sites
MinCorner == <<Min(Column(grid_points, 1)), Min(Column(grid_points, 2))>>

MaxCorner == <<Max(Column(grid_points, 1)), Max(Column(grid_points, 2))>>

\* the sites (from 0) located at p
SitesAt(p) == {j \in 0..(Len(grid_points) - 1) : grid_points[j + 1] = p}

\* the corner cells Z[0, 0] and Z[-1, -1] belong to the first site at the
\* corresponding corner of the bounding box, when there is one
CornersOwned ==
    /\ SitesAt(MinCorner) # {} => CellLabel(<<0, 0>>) = Min(SitesAt(MinCorner))
    /\ SitesAt(MaxCorner) # {} =>
          CellLabel(<<resolution - 1, resolution - 1>>) = Min(SitesAt(MaxCorner))

\* the cells whose sample is nearest to site j
NearestCells(j) ==
    {cell \in Cells : \A other \in Cells :
        SquaredDistance(Sample(other[1], other[2]), ScaledSites[j + 1])
            >= SquaredDistance(Sample(cell[1], cell[2]), ScaledSites[j + 1])}

(* C14 as stated: in generate_voronoi_grid, for every site list and every  *)
(* padding >= 0, a site at the minimum corner of the bounding box owns     *)
(* Z[0, 0] and a site at the maximum corner owns Z[-1, -1] (the lowest     *)
(* index among the sites at that corner); and with zero padding the grid   *)
(* cell nearest to a site carries the label of a site at its coordinates.  *)
C14_CornersAndNearestCell ==
    GridDone("generate_voronoi_grid") =>
        /\ CornersOwned
        /\ padding[1] = 0 =>
              \A j \in 0..(Len(grid_points) - 1) :
                  \E cell \in NearestCells(j) :
                      grid_points[CellLabel(cell) + 1] = grid_points[j + 1]

(* C14 amended: with at least two samples per axis, for every padding >= 0 *)
(* the first site at the minimum corner owns Z[0, 0] and the first site at *)
(* the maximum corner owns Z[-1, -1]; with zero padding a cell whose       *)
(* sample is exactly a site's position carries the lowest index among the  *)
(* sites at that position.                                                 *)
C14_CornersAndSampledSites ==
    (GridDone("generate_voronoi_grid") /\ resolution >= 2) =>
        /\ CornersOwned
        /\ padding[1] = 0 =>
              \A j \in 0..(Len(grid_points) - 1), cell \in Cells :
                  Sample(cell[1], cell[2]) = ScaledSites[j + 1] =>
                      CellLabel(cell) = Min(SitesAt(grid_points[j + 1]))

C14_Witness ==
    /\ GridDone("generate_voronoi_grid")
    /\ grid_points = <<<<0, 0>>, <<1, 0>>, <<0, 1>>>>
    /\ padding[1] = 0 /\ resolution = 3
    /\ CellLabel(<<0, 0>>) = 0 /\ CellLabel(<<0, 2>>) = 1 /\ CellLabel(<<2, 0>>) = 2

\* with one sample per axis the only cell is the minimum-corner sample
C14_SingleSample ==
    (GridDone("generate_voronoi_grid") /\ resolution = 1) => CornersOwned

\* all sites share coordinate j
Flat(j) == Cardinality(Column(grid_points, j)) = 1

\* a flat axis of value c is sampled from c - padding to c + padding (its
\* range counts as 1.0), over the requested number of samples
FlatAxisSpan(axis, j) ==
    LET c == Min(Column(grid_points, j))
    IN  /\ Len(axis) = resolution
        /\ axis[1] = Intervals(resolution) * (padding[2] * c - padding[1])
        /\ resolution >= 2 =>
              axis[resolution] = Intervals(resolution) * (padding[2] * c + padding[1])

\* the sites that are the first at their position
FirstSites == {j \in 0..(Len(grid_points) - 1) : j = Min(SitesAt(grid_points[j + 1]))}

DegenerateGrid ==
    /\ HasShape(Z, resolution, resolution)
    /\ Flat(1) => FlatAxisSpan(axis_x, 1)
    /\ Flat(2) => FlatAxisSpan(axis_y, 2)

(* C15 as stated: when all sites share the same x or the same y,           *)
(* generate_voronoi_grid completes, takes the range of that axis as 1.0    *)
(* (sampling it over [c - padding, c + padding] across the requested       *)
(* resolution) and returns a grid of the requested shape in which the      *)
(* aligned sites still receive distinct regions: every site position has   *)
(* cells of its own.                                                       *)
C15_AlignedSitesAllOwnCells ==
    (GridDone("generate_voronoi_grid") /\ (Flat(1) \/ Flat(2))) =>
        /\ DegenerateGrid
        /\ FirstSites \subseteq Labels(Z)

(* C15 amended: when all sites share the same x or the same y,             *)
(* generate_voronoi_grid completes, samples that axis over [c - padding,   *)
(* c + padding] across the requested resolution and returns a grid of the  *)
(* requested shape; with at least two samples per axis the first site at   *)
(* each end of the alignment owns cells (Z[0, 0] and Z[-1, -1]), so sites  *)
(* at different positions receive at least two distinct regions.           *)
C15_AlignedSitesEndsOwnCells ==
    (GridDone("generate_voronoi_grid") /\ (Flat(1) \/ Flat(2))) =>
        /\ DegenerateGrid
        /\ resolution >= 2 =>
              /\ CellLabel(<<0, 0>>) = Min(SitesAt(MinCorner))
              /\ CellLabel(<<resolution - 1, resolution - 1>>) = Min(SitesAt(MaxCorner))
              /\ MinCorner # MaxCorner => Cardinality(Labels(Z)) >= 2

C15_Witness ==
    /\ GridDone("generate_voronoi_grid")
    /\ grid_points = <<<<0, 1>>, <<1, 1>>, <<3, 1>>>>
    /\ padding = <<1, 10>> /\ resolution = 3
    /\ Labels(Z) = {0, 1, 2}
    /\ axis_y = <<18, 20, 22>>

-----------------------------------------------------------------------------
(* Normalised points *)

NormDone == npc = "done" /\ points_normalises.raised = "none"

Normalised(k) == points_normalises.value[k]

\* comparisons of fractions (denominators are positive)
Between(lo, q, hi) == lo * q.den <= q.num /\ q.num <= hi * q.den

FracLess(a, b) == a.num * b.den < b.num * a.den

FracEqual(a, b) == a.num * b.den = b.num * a.den

WithinMargin(j, dim) ==
    \A k \in 1..Len(points_normalises.value) :
        /\ Normalised(k)[j].den > 0
        /\ Between(marge, Normalised(k)[j], dim - marge)

(* C16 as stated: for every point list, width, height and margin, every    *)
(* point returned by normaliser_points has  margin <= x <= width - margin  *)
(* and  margin <= y <= height - margin.                                    *)
C16_WithinMargins ==
    NormDone => WithinMargin(1, norm_largeur) /\ WithinMargin(2, norm_hauteur)

(* C16 amended: every point returned by normaliser_points has              *)
(* margin <= x <= width - margin  whenever  2 * margin <= width,  and      *)
(* margin <= y <= height - margin  whenever  2 * margin <= height.         *)
C16_WithinMarginsThatFit ==
    NormDone =>
        /\ 2 * marge <= norm_largeur => WithinMargin(1, norm_largeur)
        /\ 2 * marge <= norm_hauteur => WithinMargin(2, norm_hauteur)

C16_Witness ==
    /\ NormDone
    /\ Len(norm_points) = 3
    /\ marge = 2 /\ norm_largeur = 10 /\ norm_hauteur = 6
    /\ \E k \in 1..3 : Normalised(k) = <<Fraction(2 * 3, 3), Fraction(4 * 3, 3)>>
    /\ \E k \in 1..3 : Normalised(k) = <<Fraction(8 * 3, 3), Fraction(2 * 3, 3)>>
    /\ \E k \in 1..3 : FracLess(Fraction(2, 1), Normalised(k)[1])
                        /\ FracLess(Normalised(k)[1], Fraction(8, 1))

SameCount == Len(points_normalises.value) = Len(norm_points)

\* equal coordinates on axis j have equal images
TiesPreserved(j) ==
    \A a, b \in 1..Len(norm_points) :
        norm_points[a][j] = norm_points[b][j] => FracEqual(Normalised(a)[j], Normalised(b)[j])

\* smaller coordinates on axis j have strictly smaller images
OrderPreserved(j) ==
    \A a, b \in 1..Len(norm_points) :
        norm_points[a][j] < norm_points[b][j] => FracLess(Normalised(a)[j], Normalised(b)[j])

(* C17 as stated: normaliser_points returns as many points as it was given,*)
(* the i-th output being the image of the i-th input, and for every width, *)
(* height and margin  px1 < px2  implies  nx1 < nx2  and  px1 = px2        *)
(* implies  nx1 = nx2;  likewise for y.                                    *)
C17_OrderPreserved ==
    NormDone =>
        /\ SameCount
        /\ TiesPreserved(1) /\ TiesPreserved(2)
        /\ OrderPreserved(1) /\ OrderPreserved(2)

(* C17 amended: normaliser_points returns as many points as it was given,  *)
(* in the order of the inputs, and equal coordinates have equal images for *)
(* every width, height and margin; px1 < px2 implies nx1 < nx2 whenever    *)
(* width > 2 * margin, and py1 < py2 implies ny1 < ny2 whenever            *)
(* height > 2 * margin.                                                    *)
C17_OrderPreservedWhenRoom ==
    NormDone =>
        /\ SameCount
        /\ TiesPreserved(1) /\ TiesPreserved(2)
        /\ norm_largeur > 2 * marge => OrderPreserved(1)
        /\ norm_hauteur > 2 * marge => OrderPreserved(2)

C17_Witness ==
    /\ NormDone
    /\ norm_points = <<<<0, 0>>, <<1, 1>>, <<3, 3>>>>
    /\ norm_largeur > 2 * marge /\ norm_hauteur > 2 * marge
    /\ FracLess(Normalised(1)[1], Normalised(2)[1])
    /\ FracLess(Normalised(2)[1], Normalised(3)[1])
    /\ FracLess(Normalised(1)[2], Normalised(2)[2])
    /\ FracLess(Normalised(2)[2], Normalised(3)[2])

\* all points given to normaliser_points share coordinate j
NormFlat(j) == Cardinality(Column(norm_points, j)) = 1

\* every point has the one normalised coordinate `marge` on axis j
Collapsed(j) ==
    \A k \in 1..Len(norm_points) :
        /\ Normalised(k)[j].den > 0
        /\ FracEqual(Normalised(k)[j], Fraction(marge, 1))

\* axis j is mapped linearly from [min, max] onto [marge, dim - marge]
Linear(j, dim) ==
    LET lo == Min(Column(norm_points, j))
        hi == Max(Column(norm_points, j))
    IN  \A k \in 1..Len(norm_points) :
            LET q == Normalised(k)[j]
            IN  /\ q.den > 0
                /\ (q.num - marge * q.den) * (hi - lo)
                      = (norm_points[k][j] - lo) * (dim - 2 * marge) * q.den
                /\ norm_points[k][j] = lo => FracEqual(q, Fraction(marge, 1))
                /\ norm_points[k][j] = hi => FracEqual(q, Fraction(dim - marge, 1))

(* C18: when all points share the same x (or the same y), normaliser_points*)
(* replaces the range of that axis by 1.0, so that nothing is divided by   *)
(* zero and all points get the same normalised coordinate on that axis,    *)
(* while the other axis is still mapped linearly from [min, max] onto      *)
(* [margin, dimension - margin].                                           *)
C18_DegenerateAxis ==
    (npc = "done" /\ norm_points # <<>> /\ (NormFlat(1) \/ NormFlat(2))) =>
        /\ points_normalises.raised = "none"
        /\ SameCount
        /\ NormFlat(1) => Collapsed(1)
        /\ NormFlat(2) => Collapsed(2)
        /\ ~NormFlat(1) => Linear(1, norm_largeur)
        /\ ~NormFlat(2) => Linear(2, norm_hauteur)

C18_Witness ==
    /\ NormDone
    /\ norm_points = <<<<1, 0>>, <<1, 3>>, <<1, 1>>>>
    /\ marge = 2 /\ norm_hauteur = 10 /\ norm_largeur = 6
    /\ Normalised(1) = <<Fraction(2, 1), Fraction(6, 3)>>
    /\ Normalised(2) = <<Fraction(2, 1), Fraction(24, 3)>>
    /\ Normalised(3) = <<Fraction(2, 1), Fraction(12, 3)>>

-----------------------------------------------------------------------------
(* Regions *)

\* the index pairs i < j of a list of n neighbours
PairsOf(n) == {pair \in (0..(n - 1)) \X (0..(n - 1)) : pair[1] < pair[2]}

\* a and b lie on one line through point: their bisectors are parallel
Collinear(point, a, b) ==
    (a[1] - point[1]) * (b[2] - point[2]) = (a[2] - point[2]) * (b[1] - point[1])

\* the pairs of neighbours of site s whose bisectors intersect
UsablePairs(s) ==
    LET point == region_points[s + 1]
        nb == Neighbors(point, region_points)
    IN  {pair \in PairsOf(Len(nb)) : ~Collinear(point, nb[pair[1] + 1], nb[pair[2] + 1])}

\* the sites plot_voronoi has finished with
ProcessedSites == {s \in 0..(Len(region_points) - 1) : s < site \/ rpc = "done"}

(* C19 as stated: compute_region returns None whenever fewer than 3 usable *)
(* vertices are found; it never returns a sequence of 1 or 2 vertices.     *)
C19_NoneBelowThreeVertices ==
    rpc = "returned" => (region.none \/ Len(region.vertices) >= 3)

(* C19 amended: compute_region returns None exactly when no pair of        *)
(* bisectors intersects, and otherwise returns all the vertices found,     *)
(* however few; plot_voronoi fills the region of a point exactly when it   *)
(* has more than 2 vertices, so no region of 1 or 2 vertices is drawn.     *)
C19_FewVerticesNotDrawn ==
    /\ rpc = "returned" =>
          /\ region.none <=> UsablePairs(site) = {}
          /\ Len(region.vertices) = Cardinality(UsablePairs(site))
    /\ filled \subseteq ProcessedSites
    /\ \A s \in ProcessedSites : s \in filled <=> Cardinality(UsablePairs(s)) > 2

C19_Witness ==
    /\ rpc = "returned"
    /\ site = 1
    /\ ~region.none /\ Len(region.vertices) = 2
    /\ filled = {0}

\* the pairs of neighbours the loops of compute_region have been through
ProcessedPairs ==
    {pair \in PairsOf(Len(neighbors)) :
        pair[1] < pair_i \/ (pair[1] = pair_i /\ pair[2] < pair_j)}

ParallelPair(pair) ==
    Collinear(region_points[site + 1], neighbors[pair[1] + 1], neighbors[pair[2] + 1])

\* v is at the same distance from p and from q
Equidistant(v, p, q) ==
    (v.x - v.den * p[1]) * (v.x - v.den * p[1]) + (v.y - v.den * p[2]) * (v.y - v.den * p[2])
      = (v.x - v.den * q[1]) * (v.x - v.den * q[1]) + (v.y - v.den * q[2]) * (v.y - v.den * q[2])

(* C20: when the two bisectors of a pair are parallel (the 2x2 system is   *)
(* singular) line_intersection yields no point and compute_region drops    *)
(* the candidate: the vertices collected are exactly one per processed     *)
(* pair whose bisectors intersect, each a point of two bisectors, no error *)
(* ends the call, and the loops go on through all the remaining pairs.     *)
C20_ParallelPairsDropped ==
    rpc \in {"pairs", "returned"} =>
        /\ Len(vertices) = Cardinality({pair \in ProcessedPairs : ~ParallelPair(pair)})
        /\ \A k \in 1..Len(vertices) :
              /\ ~vertices[k].none /\ vertices[k].den > 0
              /\ \E pair \in ProcessedPairs :
                    /\ Equidistant(vertices[k], region_points[site + 1],
                                   neighbors[pair[1] + 1])
                    /\ Equidistant(vertices[k], region_points[site + 1],
                                   neighbors[pair[2] + 1])
        /\ rpc = "returned" => ProcessedPairs = PairsOf(Len(neighbors))

C20_Witness ==
    /\ rpc = "returned"
    /\ Len(neighbors) = 3
    /\ ParallelPair(<<0, 1>>)
    /\ ~ParallelPair(<<0, 2>>) /\ ~ParallelPair(<<1, 2>>)
    /\ Len(vertices) = 2
    /\ ~region.none

\* the number of times v occurs in the sequence vs
Occurrences(v, vs) == Cardinality({k \in 1..Len(vs) : vs[k] = v})

\* seq is a rearrangement of vs: nothing added, nothing lost
IsPermutation(seq, vs) ==
    /\ Len(seq) = Len(vs)
    /\ \A k \in 1..Len(vs) : Occurrences(vs[k], seq) = Occurrences(vs[k], vs)

(* C21: the vertex sequence compute_region returns is a permutation of the *)
(* candidate intersections it accumulated (none added, none lost), ordered *)
(* by non-decreasing atan2 angle of (vertex - site) around the site.       *)
C21_SortedPermutation ==
    (rpc = "returned" /\ ~region.none) =>
        /\ IsPermutation(region.vertices, vertices)
        /\ \A k \in 1..(Len(region.vertices) - 1) :
              ~AngleLess(region.vertices[k + 1], region.vertices[k],
                         region_points[site + 1])

C21_Witness ==
    /\ rpc = "returned"
    /\ Len(region.vertices) = 3
    /\ region.vertices # vertices
    /\ AngleLess(region.vertices[1], region.vertices[2], region_points[site + 1])
    /\ AngleLess(region.vertices[2], region.vertices[3], region_points[site + 1])


(***************************************************************************)
(* The interactive shells.  A point set is named by a number of PointSets  *)
(* (0: no points), and a stored grid or figure by the point set it was     *)
(* built from.  A Tk callback runs alone until it returns; the only place  *)
(* where another callback can run inside it is a call of update(), which   *)
(* phase-1 charger and claude _generer make before they build.  The depth  *)
(* of that nesting is kept to one handler waiting in update().             *)
(***************************************************************************)
Shells == {"phase1", "claude", "Grok", "Fusion", "Gemini", "ChatGPT"}

PointSets == 1..MaxPointSets

\* A written file: the point set its grid / figure was built from, and the
\* point set the application held when it was written.
File(b, h) == [build |-> b, points |-> h]

\* What reading the chosen file gives: a point set, an exception, or (phase 1
\* only, which swallows FileNotFoundError and skips the lines it cannot
\* split) an empty list.
LoadResults(s) ==
    {[kind |-> "points", set |-> k] : k \in PointSets}
        \cup {[kind |-> "raises", set |-> 0]}
        \cup (IF s = "phase1" THEN {[kind |-> "empty", set |-> 0]} ELSE {})

HasResultAlways(b) == TRUE

\* `if self.grille is None: return` (phase 1), `if not self._figure: return`
\* (claude): the export goes on only with a stored result.
HasResult(b) == b # 0

InitShell ==
    /\ shell \in Shells
    /\ held \in (IF shell = "claude" THEN {0, 1} ELSE {0})
    /\ built = 0
    /\ gen_enabled = FALSE
    /\ exp_enabled = FALSE
    /\ suspended = "none"
    /\ files = {}
    /\ IdleRead
    /\ IdleDist
    /\ IdleNear
    /\ IdleGrid
    /\ IdleNorm
    /\ IdleRegion
    /\ IdleEdges

\* phase 1, charger, up to its call of update()
charger ==
    /\ shell = "phase1" /\ suspended = "none"
    /\ \E r \in LoadResults(shell) :
          /\ held' = (IF r.kind = "raises" THEN held ELSE r.set)
          /\ suspended' = (IF r.kind = "points" THEN "charger" ELSE "none")
    /\ UNCHANGED <<shell, built, gen_enabled, exp_enabled, files, notShell>>

\* phase 1, charger, from update() on: the grid of the points held
ChargerResume ==
    /\ shell = "phase1" /\ suspended = "charger"
    /\ built' = held
    /\ suspended' = "none"
    /\ UNCHANGED <<shell, held, gen_enabled, exp_enabled, files, notShell>>

\* phase 1, export_png and export_svg: the stored grid with the points held
Phase1Export ==
    /\ shell = "phase1"
    /\ HasResult(built)
    /\ files' = files \cup {File(built, held)}
    /\ UNCHANGED <<shell, held, built, gen_enabled, exp_enabled, suspended, notShell>>

\* claude, _charger_fichier: only the points change, and only on success
charger_fichier ==
    /\ shell = "claude"
    /\ \E r \in LoadResults(shell) :
          held' = (IF r.kind = "raises" THEN held ELSE r.set)
    /\ UNCHANGED <<shell, built, gen_enabled, exp_enabled, suspended, files, notShell>>

\* claude, _generer, up to its call of update()
generer ==
    /\ shell = "claude" /\ suspended = "none"
    /\ held # 0
    /\ suspended' = "_generer"
    /\ UNCHANGED <<shell, held, built, gen_enabled, exp_enabled, files, notShell>>

\* claude, _generer, from update() on: normalise, grid, figure
GenererResume ==
    /\ shell = "claude" /\ suspended = "_generer"
    /\ built' = held
    /\ suspended' = "none"
    /\ UNCHANGED <<shell, held, gen_enabled, exp_enabled, files, notShell>>

\* claude, _exporter_png and _exporter_svg: the stored figure
exporter ==
    /\ shell = "claude"
    /\ HasResult(built)
    /\ files' = files \cup {File(built, held)}
    /\ UNCHANGED <<shell, held, built, gen_enabled, exp_enabled, suspended, notShell>>

\* Grok, load_file
GrokLoadFile ==
    /\ shell = "Grok"
    /\ \E r \in LoadResults(shell) :
          /\ held' = (IF r.kind = "points" THEN r.set ELSE held)
          /\ gen_enabled' = (r.kind = "points")
          /\ exp_enabled' = (IF r.kind = "points" THEN FALSE ELSE exp_enabled)
    /\ UNCHANGED <<shell, built, suspended, files, notShell>>

\* Grok, generate_and_plot
generate_and_plot ==
    /\ shell = "Grok" /\ gen_enabled
    /\ held # 0
    /\ built' = held
    /\ exp_enabled' = TRUE
    /\ UNCHANGED <<shell, held, gen_enabled, suspended, files, notShell>>

\* Grok, export: export_voronoi builds the regions again from the points held
GrokExport ==
    /\ shell = "Grok" /\ exp_enabled
    /\ held # 0
    /\ files' = files \cup {File(held, held)}
    /\ UNCHANGED <<shell, held, built, gen_enabled, exp_enabled, suspended, notShell>>

\* Fusion and Gemini, load_file: read, plot, enable the export buttons
LoadFile ==
    /\ shell \in {"Fusion", "Gemini"}
    /\ \E r \in LoadResults(shell) :
          /\ held' = (IF r.kind = "points" THEN r.set ELSE held)
          /\ built' = (IF r.kind = "points" THEN r.set ELSE built)
          /\ exp_enabled' = (IF r.kind = "points" THEN TRUE ELSE exp_enabled)
    /\ UNCHANGED <<shell, gen_enabled, suspended, files, notShell>>

\* Fusion and Gemini, export_image: the figure on display
export_image ==
    /\ shell \in {"Fusion", "Gemini"} /\ exp_enabled
    /\ held # 0
    /\ files' = files \cup {File(built, held)}
    /\ UNCHANGED <<shell, held, built, gen_enabled, exp_enabled, suspended, notShell>>

\* ChatGPT, load_file: read, plot_voronoi builds the edges and saves them
ChatGPTLoadFile ==
    /\ shell = "ChatGPT"
    /\ \E r \in LoadResults(shell) :
          files' = (IF r.kind = "points" THEN files \cup {File(r.set, r.set)} ELSE files)
    /\ UNCHANGED <<shell, held, built, gen_enabled, exp_enabled, suspended, notShell>>

NextShell ==
    \/ charger
    \/ ChargerResume
    \/ Phase1Export
    \/ charger_fichier
    \/ generer
    \/ GenererResume
    \/ exporter
    \/ GrokLoadFile
    \/ generate_and_plot
    \/ GrokExport
    \/ LoadFile
    \/ export_image
    \/ ChatGPTLoadFile

SpecShell == InitShell /\ [][NextShell]_vars

C29_ExportOfHeldPoints ==
    shell \in {"phase1", "claude"} =>
        \A f \in files : f.build = f.points


(***************************************************************************)
(* The bisector edges of the ChatGPT variant.  Coordinates are integers,   *)
(* the midpoint and c are exact fractions, and an array of samples is a    *)
(* sequence of numerators over one denominator; a quotient by zero is the  *)
(* nan that NumPy's float division gives.                                  *)
(***************************************************************************)
NumSamples == 500

BisectorAlongSegment(p1, p2) ==
    LET dx == p2[1] - p1[1]
        dy == p2[2] - p1[2]
    IN  [a |-> dy, b |-> 0 - dx,
         c |-> Fraction(0 - (dy * (p1[1] + p2[1]) - dx * (p1[2] + p2[2])), 2)]

compute_perpendicular_bisector(p1, p2) ==
    LET midpoint == <<Fraction(p1[1] + p2[1], 2), Fraction(p1[2] + p2[2], 2)>>
        dx == p2[1] - p1[1]
        dy == p2[2] - p1[2]
        a == dx
        b == dy
    IN  [a |-> a, b |-> b,
         c |-> Fraction(0 - (a * midpoint[1].num + b * midpoint[2].num), 2)]

\* an array of NumSamples values num[k] / den, or of nan
Samples(nums, d) == [nan |-> d = 0, num |-> nums, den |-> d]

\* one iteration of the inner loop: the samples of the line a x + b y + c = 0
Edge(bis, bnds) ==
    LET xmin == bnds[1]
        xmax == bnds[2]
        ymin == bnds[3]
        ymax == bnds[4]
        scale == Intervals(NumSamples)
    IN  IF bis.b # 0
        THEN LET x_vals == linspace(xmin, xmax, NumSamples)
             IN  [x_vals |-> Samples(x_vals, scale),
                  y_vals |-> Samples([k \in 1..NumSamples |->
                                         0 - bis.a * x_vals[k] * bis.c.den - bis.c.num * scale],
                                     bis.b * scale * bis.c.den)]
        ELSE [x_vals |-> Samples([k \in 1..NumSamples |-> 0 - bis.c.num], bis.a * bis.c.den),
              y_vals |-> Samples(linspace(ymin, ymax, NumSamples), scale)]

EdgePoints == {<<0, 0>>, <<1, 0>>, <<0, 2>>, <<1, 3>>}

EdgeBounds == {<<-10, 10, -10, 10>>, <<-5, 6, -5, 8>>}

InitEdges ==
    /\ edge_points \in UNION {[1..n -> EdgePoints] : n \in MinPoints..MaxSites}
    /\ edge_bounds \in EdgeBounds
    /\ edge_i = 0 /\ edge_j = 0
    /\ bisector = [a |-> 0, b |-> 0, c |-> [num |-> 0, den |-> 1]] /\ edges = <<>> /\ epc = "call"
    /\ IdleRead
    /\ IdleDist
    /\ IdleNear
    /\ IdleGrid
    /\ IdleNorm
    /\ IdleRegion
    /\ IdleShell

\* edges = [], and the first pair (0, 1)
GenerateVoronoiEdges ==
    /\ epc = "call"
    /\ edges' = <<>>
    /\ edge_i' = 0 /\ edge_j' = 1
    /\ epc' = "pairs"
    /\ UNCHANGED <<edge_points, edge_bounds, bisector, notEdges>>

\* the body of the inner loop for the pair (i, j), and the step to the next pair
EdgeStep ==
    /\ epc = "pairs"
    /\ edge_j < Len(edge_points)
    /\ bisector' = compute_perpendicular_bisector(edge_points[edge_i + 1], edge_points[edge_j + 1])
    /\ edges' = Append(edges, Edge(bisector', edge_bounds))
    /\ IF edge_j + 1 < Len(edge_points)
       THEN edge_i' = edge_i /\ edge_j' = edge_j + 1
       ELSE edge_i' = edge_i + 1 /\ edge_j' = edge_i + 2
    /\ UNCHANGED <<edge_points, edge_bounds, epc, notEdges>>

\* both ranges are exhausted: return edges
ReturnEdges ==
    /\ epc = "pairs"
    /\ edge_j >= Len(edge_points)
    /\ epc' = "done"
    /\ UNCHANGED <<edge_points, edge_bounds, edge_i, edge_j, bisector, edges, notEdges>>

NextEdges ==
    \/ GenerateVoronoiEdges
    \/ EdgeStep
    \/ ReturnEdges

SpecEdges == InitEdges /\ [][NextEdges]_vars


(* Bisector edges *)

\* the pair (i, j) whose bisector was computed last
LastPair ==
    IF edge_j > edge_i + 1
    THEN <<edge_i, edge_j - 1>>
    ELSE <<edge_i - 1, Len(edge_points) - 1>>

BisectorComputed == epc = "pairs" /\ edges # <<>>

\* the points (X / 2, Y / 2) the equidistance is tried on
Probes == (-12..12) \X (-12..12)

\* a x + b y + c = 0 at the point (q[1] / 2, q[2] / 2)
OnLine(bis, q) == (bis.a * q[1] + bis.b * q[2]) * bis.c.den + 2 * bis.c.num = 0

\* the point (q[1] / 2, q[2] / 2) is as far from p as from r
EquidistantHalf(q, p, r) ==
    (q[1] - 2 * p[1]) * (q[1] - 2 * p[1]) + (q[2] - 2 * p[2]) * (q[2] - 2 * p[2])
        = (q[1] - 2 * r[1]) * (q[1] - 2 * r[1]) + (q[2] - 2 * r[2]) * (q[2] - 2 * r[2])

\* C23: the coefficients (a, b, c) returned for p1, p2 are such that the
\* midpoint of p1 and p2 satisfies a x + b y + c = 0, (a, b) is p2 - p1, and
\* every point that satisfies the equation is equidistant from p1 and p2.
C23_PerpendicularBisector ==
    BisectorComputed =>
        LET p1 == edge_points[LastPair[1] + 1]
            p2 == edge_points[LastPair[2] + 1]
        IN  /\ OnLine(bisector, <<p1[1] + p2[1], p1[2] + p2[2]>>)
            /\ <<bisector.a, bisector.b>> = <<p2[1] - p1[1], p2[2] - p1[2]>>
            /\ \A q \in Probes : OnLine(bisector, q) => EquidistantHalf(q, p1, p2)

\* an oblique bisector with a fractional c and a probe on it besides the midpoint
C23_Witness ==
    /\ BisectorComputed
    /\ bisector.a # 0 /\ bisector.b # 0 /\ bisector.c.num % 2 = 1
    /\ \E q \in Probes :
          /\ OnLine(bisector, q)
          /\ q # <<edge_points[LastPair[1] + 1][1] + edge_points[LastPair[2] + 1][1],
                   edge_points[LastPair[1] + 1][2] + edge_points[LastPair[2] + 1][2]>>


\* the k-th pair (1-based) in the order of the two loops
PairAt(k, n) ==
    CHOOSE pair \in PairsOf(n) :
        Cardinality({q \in PairsOf(n) :
                        q[1] < pair[1] \/ (q[1] = pair[1] /\ q[2] < pair[2])}) = k - 1

\* sample m of edge e is a point as far from p as from r
SampleEquidistant(e, m, p, r) ==
    2 * ((r[1] - p[1]) * e.x_vals.num[m] * e.y_vals.den
            + (r[2] - p[2]) * e.y_vals.num[m] * e.x_vals.den)
        = (r[1] * r[1] + r[2] * r[2] - p[1] * p[1] - p[2] * p[2]) * e.x_vals.den * e.y_vals.den

\* the samples of a vertical edge: x is the number -c / a, y runs from ymin to ymax
VerticalEdge(e, p, r) ==
    /\ ~e.x_vals.nan
    /\ \A m \in 1..NumSamples :
          2 * (r[1] - p[1]) * e.x_vals.num[m] = (r[1] * r[1] - p[1] * p[1]) * e.x_vals.den
    /\ e.y_vals.num[1] = edge_bounds[3] * e.y_vals.den
    /\ e.y_vals.num[NumSamples] = edge_bounds[4] * e.y_vals.den
    /\ \A m \in 1..(NumSamples - 1) : e.y_vals.num[m] <= e.y_vals.num[m + 1]

EdgesOfPairs(withVertical) ==
    LET n == Len(edge_points)
    IN  /\ 2 * Len(edges) = n * (n - 1)
        /\ \A k \in 1..Len(edges) :
              LET e == edges[k]
                  p == edge_points[PairAt(k, n)[1] + 1]
                  r == edge_points[PairAt(k, n)[2] + 1]
              IN  /\ Len(e.x_vals.num) = NumSamples
                  /\ Len(e.y_vals.num) = NumSamples
                  /\ p # r => \A m \in 1..NumSamples : SampleEquidistant(e, m, p, r)
                  /\ (withVertical /\ p[2] = r[2]) => VerticalEdge(e, p, r)

\* C24: the list returned holds one edge per pair i < j, in the order of the
\* pairs, each of 500 positions; an edge of a vertical bisector (b = 0) has
\* all its x equal to -c / a and its y running over [ymin, ymax].
C24_EdgesPerPair ==
    epc = "done" => EdgesOfPairs(TRUE)

\* the same with the vertical case stated for distinct points only
C24_DistinctPoints ==
    epc = "done" =>
        /\ EdgesOfPairs(FALSE)
        /\ \A k \in 1..Len(edges) :
              LET p == edge_points[PairAt(k, Len(edge_points))[1] + 1]
                  r == edge_points[PairAt(k, Len(edge_points))[2] + 1]
              IN  (p[2] = r[2] /\ p # r) => VerticalEdge(edges[k], p, r)


(* Diagram object *)

\* C25: for three non-collinear points generate_voronoi returns a diagram
\* that is not None and has at least one vertex.
C25_DiagramWithVertices ==
    (/\ vor.called
     /\ Len(region_points) = 3
     /\ ~Collinear(region_points[1], region_points[2], region_points[3]))
        => (~vor.none /\ Len(vor.vertices) > 0)


(* The loop of the batched strategy *)

\* the squared distance from the sample of a cell to site j (from 0)
CellDistance(cell, j) == SquaredDistance(Sample(cell[1], cell[2]), ScaledSites[j + 1])

CellMin(cell) == min_dists[cell[1] + 1][cell[2] + 1]

\* after sites 0..(site_index - 1): min_dists is the least squared distance
\* to one of them, and Z the lowest index at that distance
ProcessedInvariant ==
    (generator = "generate_voronoi_grid" /\ gpc \in {"loop", "done"} /\ site_index >= 1) =>
        \A cell \in Cells :
            LET processed == 0..(site_index - 1)
                least == Min({CellDistance(cell, j) : j \in processed})
            IN  /\ CellMin(cell) = Sq(least)
                /\ CellLabel(cell) = Min({j \in processed : CellDistance(cell, j) = least})

\* one iteration: a cell changes only for a strictly smaller squared
\* distance, and no entry of min_dists goes up
StrictOverwrite ==
    (gpc = "loop" /\ site_index' = site_index + 1) =>
        \A cell \in Cells :
            LET r == cell[1] + 1
                c == cell[2] + 1
            IN  /\ (Z'[r][c] # Z[r][c] \/ min_dists'[r][c] # min_dists[r][c]) =>
                      /\ SqLess(Sq(CellDistance(cell, site_index)), min_dists[r][c])
                      /\ Z'[r][c] = site_index
                      /\ min_dists'[r][c] = Sq(CellDistance(cell, site_index))
                /\ ~SqLess(min_dists[r][c], min_dists'[r][c])

\* C26: loop invariant of generate_voronoi_grid: after sites 0..k, min_dists
\* is the minimum squared distance to sites 0..k and Z the lowest index
\* attaining it; a later site overwrites a cell only for a strictly smaller
\* squared distance, and min_dists never increases.
C26_LoopInvariant == []ProcessedInvariant /\ [][StrictOverwrite]_vars

\* in the middle of the loop: one cell was taken over by the second site,
\* another is at equal distance from both sites and kept the first
C26_Witness ==
    /\ gpc = "loop" /\ site_index = 2 /\ Len(grid_points) = 3
    /\ \E cell \in Cells : CellLabel(cell) = 1
    /\ \E cell \in Cells :
          /\ CellLabel(cell) = 0
          /\ CellDistance(cell, 0) = CellDistance(cell, 1)
          /\ grid_points[1] # grid_points[2]


(* Duplicate sites *)

\* the pairs i < j of sites (from 0) with the same coordinates
CoincidentPairs ==
    {pair \in PairsOf(Len(grid_points)) :
        grid_points[pair[1] + 1] = grid_points[pair[2] + 1]}

\* C27: in a label grid returned by the scalar or by the batched strategy, a
\* site with the coordinates of a site of lower index labels no cell: for
\* coincident sites i < j the value j is nowhere in the grid.
C27_DuplicateLabelsNothing ==
    (gpc = "done" /\ ~Returned_grid.none) =>
        \A pair \in CoincidentPairs : pair[2] \notin Labels(Returned_grid.cells)

\* a batched grid of three sites, the last two at one place, shared between
\* the first and the second
C27_Witness ==
    /\ GridDone("generate_voronoi_grid")
    /\ CoincidentPairs = {<<1, 2>>}
    /\ Labels(Z) = {0, 1}

\* the readers keep a repeated line as two sites, at two indices
C27_ParserKeepsDuplicates ==
    (Phase2Done /\ Len(written) = 2 /\ written[1] = written[2]) =>
        /\ outcome.kind = "ok"
        /\ Len(outcome.points) = 2
        /\ outcome.points[1] = outcome.points[2]


(* Error precedence *)

\* the error of line k: the field count first, then the numbers; no line
\* after k was examined
ErrorOfLine(k) ==
    /\ outcome.kind = "ValueError"
    /\ outcome.line = k
    /\ line_number = k
    /\ IF Malformed(contents[k])
       THEN Says(outcome, MalformedTexts)
       ELSE Says(outcome, NonNumericTexts)

\* C28: in the phase-2 readers the error raised is that of the first
\* offending line of the source (the field count before the numbers on one
\* line), no line after it is examined, and the insufficient-points error
\* is raised only when every line was read without a line error.
C28_ErrorPrecedence ==
    Phase2Done =>
        /\ \A k \in 1..Len(contents) : FirstOffending(contents, k) => ErrorOfLine(k)
        /\ Says(outcome, InsufficientTexts) =>
              (WellFormedFile(contents) /\ line_number = Len(contents))

\* line k is the first line that the checks of the readers reject: the
\* field count, or a field float() does not convert
FirstRejected(file, k) ==
    /\ k \in 1..Len(file)
    /\ ~Blank(file[k]) /\ ~ConvertibleLine(file[k])
    /\ \A i \in 1..(k - 1) : Blank(file[i]) \/ ConvertibleLine(file[i])

\* the same order with the lines float() converts counted as passing
C28_CheckOrder ==
    Phase2Done =>
        /\ \A k \in 1..Len(contents) : FirstRejected(contents, k) => ErrorOfLine(k)
        /\ Says(outcome, InsufficientTexts) =>
              /\ \A i \in 1..Len(contents) : Blank(contents[i]) \/ ConvertibleLine(contents[i])
              /\ line_number = Len(contents)


(* Few sites *)

DistinctPoints(pts) == {pts[k] : k \in 1..Len(pts)}

AllCollinear(pts) ==
    \A i, j, k \in 1..Len(pts) : Collinear(pts[i], pts[j], pts[k])

\* C30 as stated: a site with k distinct neighbours yields at most
\* k (k - 1) / 2 candidate vertices, and for a point set with fewer than 4
\* distinct sites, or with all sites collinear, plot_voronoi draws no cell.
C30_FewDistinctSites ==
    /\ rpc \in {"pairs", "returned"} =>
          LET k == Cardinality(DistinctPoints(neighbors))
          IN  2 * Len(vertices) <= k * (k - 1)
    /\ (rpc = "done" /\ (Cardinality(DistinctPoints(region_points)) < 4
                            \/ AllCollinear(region_points))) => filled = {}

\* C30 amended: the neighbours of a site are the entries of the list at
\* other coordinates, a repeated site once for each entry; a site with k of
\* them yields at most k (k - 1) / 2 candidate vertices, a cell is drawn only
\* for a site with at least 3 neighbours and 3 pairs of non-parallel
\* bisectors, and for a list of fewer than 4 points, or with all points
\* collinear, plot_voronoi draws no cell and runs to its end.
C30_FewPoints ==
    /\ rpc \in {"pairs", "returned"} =>
          2 * Len(vertices) <= Len(neighbors) * (Len(neighbors) - 1)
    /\ \A s \in filled :
          /\ Len(Neighbors(region_points[s + 1], region_points)) >= 3
          /\ Cardinality(UsablePairs(s)) >= 3
    /\ (Len(region_points) < 4 \/ AllCollinear(region_points)) =>
          /\ filled = {}
          /\ rpc # "done" => ENABLED NextRegion

\* three sites in a triangle, all plotted: a single vertex for the last
\* one, and no cell drawn
C30_Witness ==
    /\ rpc = "done"
    /\ Len(region_points) = 3 /\ ~AllCollinear(region_points)
    /\ Len(vertices) = 1
    /\ filled = {}

====
